---------------------------- MODULE Spec2Model ----------------------------
(***************************************************************************)
(* Conversational memory of tiny-memory-mcp: the MCPController, the        *)
(* MessageRepository, the EmbeddingService and the Database backends they  *)
(* run on.                                                                 *)
(*                                                                         *)
(* The Database is duck-typed and chosen at construction.  Two backends    *)
(* are modelled: "fake", the in-memory FakeDatabaseConnection, translated  *)
(* statement by statement from its exec/query; and "sql", a connection     *)
(* that executes the repositories' SQL text as written (the tables and the *)
(* cosine_similarity macro of DatabaseSchema).  JavaScript runs one        *)
(* continuation at a time, so every action below is one run-to-completion  *)
(* block between two awaits.                                               *)
(***************************************************************************)
EXTENDS Integers, Sequences, FiniteSets, TLC

\* ---------------------------------------------------------------- bounds
MaxConvs == 2
MaxMsgs == 2
MaxTime == 1
MaxWindow == 1
MaxLimit == 2
MaxListLen == 10
MaxComponent == 1
MaxTodos == 2
MaxMemories == 3
MaxClock == 2
MaxDays == 1
MaxRange == 1

\* ---------------------------------------------------------------- domains
Users == {"u1", "u2"}
Roles == {"user", "assistant", "system"}
Slots == {1, 2}
Backends == {"fake", "sql"}

\* A text is a sequence of characters; a substring test is a test on
\* contiguous subsequences.
Contents == {<<"x">>, <<"x", "y">>}
Keywords == {<<"x">>, <<"y">>}

\* Embedding vectors.  An optional value (undefined / NULL) is a sequence of
\* length 0, a present one a sequence of length 1.
Vectors == {<<1, 0>>, <<1, 1>>}
\* Vectors a caller can save besides: all-zero, and of another length.
Embeddings == Vectors \cup {<<0, 0>>, <<1>>}
Null == <<>>
Some(v) == <<v>>
IsNull(o) == o = <<>>

\* ---------------------------------------------------------------- strings
\* String.prototype.includes: pat occurs in s as a contiguous run.
Includes(s, pat) ==
    \E i \in 0..(Len(s) - Len(pat)) : SubSeq(s, i + 1, i + Len(pat)) = pat

\* SQL text is a sequence of lexemes: words, "SP" for a single blank and
\* "NL" for a run of white space that holds a line break.
SqlInsertConversation ==
    <<"INSERT", "SP", "INTO", "SP", "conversations", "NL",
      "(conversation_id, title, created_at, updated_at, metadata)", "NL",
      "VALUES", "SP", "(?, ?, ?, ?, ?)">>

SqlGetConversation ==
    <<"SELECT", "SP", "*", "SP", "FROM", "SP", "conversations", "SP",
      "WHERE", "SP", "conversation_id", "SP", "=", "SP", "?">>

SqlAllConversations ==
    <<"SELECT", "SP", "*", "SP", "FROM", "SP", "conversations", "SP",
      "ORDER", "SP", "BY", "SP", "updated_at", "SP", "DESC">>

SqlInsertMessage ==
    <<"INSERT", "SP", "INTO", "SP", "messages", "NL",
      "(message_id, conversation_id, timestamp, role, content, metadata, embedding)",
      "NL", "VALUES", "SP", "(?, ?, ?, ?, ?, ?, ?)">>

SqlTouchConversation ==
    <<"UPDATE", "SP", "conversations", "SP", "SET", "SP", "updated_at", "SP",
      "=", "SP", "?", "SP", "WHERE", "SP", "conversation_id", "SP", "=", "SP", "?">>

SqlGetMessage ==
    <<"SELECT", "SP", "*", "SP", "FROM", "SP", "messages", "SP",
      "WHERE", "SP", "message_id", "SP", "=", "SP", "?">>

SqlMessagesByConversation ==
    <<"SELECT", "SP", "*", "SP", "FROM", "SP", "messages", "NL",
      "WHERE", "SP", "conversation_id", "SP", "=", "SP", "?", "NL",
      "ORDER", "SP", "BY", "SP", "timestamp">>

SqlSearchMessages ==
    <<"SELECT", "SP", "*", "SP", "FROM", "SP", "messages", "NL",
      "WHERE", "SP", "content", "SP", "LIKE", "SP", "?", "NL",
      "ORDER", "SP", "BY", "SP", "timestamp", "SP", "DESC", "NL",
      "LIMIT", "SP", "?">>

SqlSearchSimilar ==
    <<"SELECT", "SP", "m.*,", "SP", "cosine_similarity", "(m.embedding,", "SP",
      "?)", "SP", "as", "SP", "similarity", "NL",
      "FROM", "SP", "messages", "SP", "m", "NL",
      "WHERE", "SP", "m.embedding", "SP", "IS", "SP", "NOT", "SP", "NULL", "NL",
      "ORDER", "SP", "BY", "SP", "similarity", "SP", "DESC", "NL",
      "LIMIT", "SP", "?">>

SqlSaveEmbedding ==
    <<"UPDATE", "SP", "messages", "SP", "SET", "SP", "embedding", "SP", "=",
      "SP", "?", "SP", "WHERE", "SP", "message_id", "SP", "=", "SP", "?">>


\* ---------------------------------------------------------------- helpers
Min(a, b) == IF a <= b THEN a ELSE b
Max(a, b) == IF a >= b THEN a ELSE b

\* Array.prototype.slice(from, to) on zero-based integer indices: a negative
\* index counts from the end, both are clamped to 0 .. length, and the
\* elements at from .. to-1 are returned.
SliceIndex(arr, k) == IF k < 0 THEN Max(Len(arr) + k, 0) ELSE Min(k, Len(arr))

SliceFromStart(arr, from, to) == SubSeq(arr, 1, SliceIndex(arr, to))

Slice(arr, from, to) == SubSeq(arr, SliceIndex(arr, from) + 1, SliceIndex(arr, to))

\* All orders of the elements of arr.
Orderings(arr) ==
    LET n == Len(arr)
        bij == {p \in [1..n -> 1..n] : \A i, j \in 1..n : i # j => p[i] # p[j]}
    IN  {[i \in 1..n |-> arr[p[i]]] : p \in bij}

\* LIMIT n.
Limit(rows, n) == SubSeq(rows, 1, Min(n, Len(rows)))

\* Array.prototype.sort((a, b) => a.timestamp - b.timestamp) is stable: each
\* element goes after every element whose timestamp is not greater.
RECURSIVE InsertByTimestamp(_, _)
InsertByTimestamp(sorted, x) ==
    IF sorted = <<>> THEN <<x>>
    ELSE IF sorted[Len(sorted)].timestamp <= x.timestamp THEN Append(sorted, x)
    ELSE Append(InsertByTimestamp(SubSeq(sorted, 1, Len(sorted) - 1), x),
                sorted[Len(sorted)])

RECURSIVE SortByTimestamp(_)
SortByTimestamp(arr) ==
    IF arr = <<>> THEN <<>>
    ELSE InsertByTimestamp(SortByTimestamp(SubSeq(arr, 1, Len(arr) - 1)),
                           arr[Len(arr)])

\* ---------------------------------------------------------------- vectors
\* A similarity score is the real number d / sqrt(n), kept as the pair of
\* integers (d, n) so that scores compare exactly.
Score(d, n) == [d |-> d, n |-> n]

\* SUM(a[i] * b[i]) for i in 1 .. k.
RECURSIVE Dot(_, _, _)
Dot(a, b, k) == IF k = 0 THEN 0 ELSE Dot(a, b, k - 1) + a[k] * b[k]

CosineSimilarityOneNorm(a, b) ==
    LET k == Min(Len(a), Len(b))
    IN  Score(Dot(a, b, k), Dot(a, a, k))

\* The cosine_similarity macro: SUM(a[i]*b[i]) / (SQRT(SUM(a[i]*a[i])) *
\* SQRT(SUM(b[i]*b[i]))) over i in 1 .. LEAST(LENGTH(a), LENGTH(b)).
CosineSimilarity(a, b) ==
    LET k == Min(Len(a), Len(b))
    IN  Score(Dot(a, b, k), Dot(a, a, k) * Dot(b, b, k))

\* The vectors of one or two integer components.
Components == (0 - MaxComponent)..MaxComponent
VectorSpace == [1..1 -> Components] \cup [1..2 -> Components]

\* s >= t as real numbers.
ScoreGE(s, t) ==
    IF s.d >= 0 /\ t.d < 0 THEN TRUE
    ELSE IF s.d < 0 /\ t.d >= 0 THEN FALSE
    ELSE IF s.d >= 0 THEN s.d * s.d * t.n >= t.d * t.d * s.n
    ELSE s.d * s.d * t.n <= t.d * t.d * s.n

ScoreEQ(s, t) == ScoreGE(s, t) /\ ScoreGE(t, s)

\* The fake backend's constant similarity, 0.95 = 19 / sqrt(400).
FakeSimilarity == Score(19, 400)

\* { ...row, similarity }.
WithSimilarity(row, s) ==
    [f \in DOMAIN row \cup {"similarity"} |->
        IF f = "similarity" THEN s ELSE row[f]]

\* ---------------------------------------------------------------- rows
\* A database is the rows of its two tables, in insertion order.
\* JSON.stringify / JSON.parse of a plain object.
JsonStringify(obj) == <<"json", obj>>
JsonParse(text) == text[2]

\* ------------------------------------------------- FakeDatabaseConnection
\* exec: the statement is recognised by substring; the two UPDATE branches
\* are empty.
FakeExec(db, sql, params) ==
    IF Includes(sql, <<"INSERT", "SP", "INTO", "SP", "conversations">>)
    THEN [db EXCEPT !.conversations = Append(@,
            [conversation_id |-> params[1], title |-> params[2],
             created_at |-> params[3], updated_at |-> params[4],
             metadata |-> JsonParse(params[5])])]
    ELSE IF Includes(sql, <<"INSERT", "SP", "INTO", "SP", "messages">>)
    THEN [db EXCEPT !.messages = Append(@,
            [message_id |-> params[1], conversation_id |-> params[2],
             timestamp |-> params[3], role |-> params[4],
             content |-> params[5], metadata |-> JsonParse(params[6]),
             embedding |-> params[7]])]
    ELSE IF Includes(sql, <<"UPDATE", "SP", "conversations">>) THEN db
    ELSE IF Includes(sql, <<"UPDATE", "SP", "messages">>) THEN db
    ELSE db

\* query: the result rows.
FakeQuery(db, sql, params) ==
    IF Includes(sql, <<"SELECT", "SP", "*", "SP", "FROM", "SP", "conversations">>)
    THEN db.conversations
    ELSE IF Includes(sql, <<"SELECT", "SP", "*", "SP", "FROM", "SP", "messages",
                            "SP", "WHERE", "SP", "conversation_id", "SP", "=",
                            "SP", "?">>)
    THEN LET Mine(msg) == msg.conversation_id = params[1]
         IN  SortByTimestamp(SelectSeq(db.messages, Mine))
    ELSE IF Includes(sql, <<"cosine_similarity">>)
    THEN IF Len(db.messages) = 0 THEN <<>>
         ELSE <<WithSimilarity(db.messages[1], FakeSimilarity)>>
    ELSE <<>>

\* ------------------------------------------------- SQL connection
\* The tables of DatabaseSchema.initialize: both ids are PRIMARY KEYs and
\* messages.conversation_id REFERENCES conversations.  A JSON column holds
\* the text it was given.
SqlExec(db, sql, params) ==
    IF sql = SqlInsertConversation
    THEN IF \E i \in 1..Len(db.conversations) :
                db.conversations[i].conversation_id = params[1]
         THEN [ok |-> FALSE, db |-> db]
         ELSE [ok |-> TRUE,
               db |-> [db EXCEPT !.conversations = Append(@,
                    [conversation_id |-> params[1], title |-> params[2],
                     created_at |-> params[3], updated_at |-> params[4],
                     metadata |-> params[5]])]]
    ELSE IF sql = SqlInsertMessage
    THEN IF \/ \E i \in 1..Len(db.messages) :
                    db.messages[i].message_id = params[1]
            \/ ~ \E i \in 1..Len(db.conversations) :
                    db.conversations[i].conversation_id = params[2]
         THEN [ok |-> FALSE, db |-> db]
         ELSE [ok |-> TRUE,
               db |-> [db EXCEPT !.messages = Append(@,
                    [message_id |-> params[1], conversation_id |-> params[2],
                     timestamp |-> params[3], role |-> params[4],
                     content |-> params[5], metadata |-> params[6],
                     embedding |-> params[7]])]]
    ELSE IF sql = SqlTouchConversation
    THEN [ok |-> TRUE,
          db |-> [db EXCEPT !.conversations =
                    [i \in 1..Len(@) |->
                        IF @[i].conversation_id = params[2]
                        THEN [@[i] EXCEPT !.updated_at = params[1]]
                        ELSE @[i]]]]
    ELSE IF sql = SqlSaveEmbedding
    THEN [ok |-> TRUE,
          db |-> [db EXCEPT !.messages =
                    [i \in 1..Len(@) |->
                        IF @[i].message_id = params[2]
                        THEN [@[i] EXCEPT !.embedding = params[1]]
                        ELSE @[i]]]]
    ELSE [ok |-> FALSE, db |-> db]

\* transformRow: a metadata column that holds a string is JSON.parsed.
TransformRow(row) == [row EXCEPT !.metadata = JsonParse(@)]

TransformRows(rows) == [i \in 1..Len(rows) |-> TransformRow(rows[i])]

\* content LIKE pattern, for a pattern %text%.
Like(content, pattern) ==
    /\ Len(pattern) >= 2
    /\ pattern[1] = "%"
    /\ pattern[Len(pattern)] = "%"
    /\ Includes(content, SubSeq(pattern, 2, Len(pattern) - 1))

\* The possible results of a SELECT: ORDER BY fixes the order of rows only
\* as far as the sort key tells them apart.
SqlQuery(db, sql, params) ==
    IF sql = SqlGetConversation
    THEN LET Hit(c) == c.conversation_id = params[1]
         IN  {TransformRows(SelectSeq(db.conversations, Hit))}
    ELSE IF sql = SqlAllConversations
    THEN {TransformRows(s) : s \in
            {o \in Orderings(db.conversations) :
                \A i, j \in 1..Len(o) :
                    i < j => o[i].updated_at >= o[j].updated_at}}
    ELSE IF sql = SqlGetMessage
    THEN LET Hit(m) == m.message_id = params[1]
         IN  {TransformRows(SelectSeq(db.messages, Hit))}
    ELSE IF sql = SqlMessagesByConversation
    THEN LET Hit(m) == m.conversation_id = params[1]
         IN  {TransformRows(s) : s \in
                {o \in Orderings(SelectSeq(db.messages, Hit)) :
                    \A i, j \in 1..Len(o) :
                        i < j => o[i].timestamp <= o[j].timestamp}}
    ELSE IF sql = SqlSearchMessages
    THEN LET Hit(m) == Like(m.content, params[1])
         IN  {TransformRows(Limit(s, params[2])) : s \in
                {o \in Orderings(SelectSeq(db.messages, Hit)) :
                    \A i, j \in 1..Len(o) :
                        i < j => o[i].timestamp >= o[j].timestamp}}
    ELSE IF sql = SqlSearchSimilar
    THEN LET Hit(m) == ~IsNull(m.embedding)
             hits == SelectSeq(db.messages, Hit)
             scored == [i \in 1..Len(hits) |->
                          WithSimilarity(hits[i],
                              CosineSimilarity(hits[i].embedding[1], params[1][1]))]
         IN  {TransformRows(Limit(s, params[2])) : s \in
                {o \in Orderings(scored) :
                    \A i, j \in 1..Len(o) :
                        i < j => ScoreGE(o[i].similarity, o[j].similarity)}}
    ELSE {<<>>}

\* ------------------------------------------------- Database
\* exec: whether the returned promise resolves, and the tables afterwards.
Exec(be, db, sql, params) ==
    IF be = "fake"
    THEN [ok |-> TRUE, db |-> FakeExec(db, sql, params)]
    ELSE SqlExec(db, sql, params)

\* query: the set of results the call can resolve to.
Query(be, db, sql, params) ==
    IF be = "fake"
    THEN {FakeQuery(db, sql, params)}
    ELSE SqlQuery(db, sql, params)

\* queryRow: results.length > 0 ? results[0] : null.
QueryRow(be, db, sql, params) ==
    {IF Len(rows) > 0 THEN Some(rows[1]) ELSE Null :
        rows \in Query(be, db, sql, params)}

\* ------------------------------------------------- ids
\* generateId / crypto.randomUUID: an id no row of the table has.
NewConversationId(db) == Len(db.conversations) + 1
NewMessageId(db) == Len(db.messages) + 1

\* ------------------------------------------------- ConversationRepository
\* createConversation: one INSERT, created_at = updated_at = now.
CreateConversation(be, db, id, time, title, metadata) ==
    Exec(be, db, SqlInsertConversation,
         <<id, title, time, time, JsonStringify(metadata)>>)

\* getConversation: the row or null.
GetConversation(be, db, id) == QueryRow(be, db, SqlGetConversation, <<id>>)

\* getAllConversations: every row, updated_at descending.
GetAllConversations(be, db) == Query(be, db, SqlAllConversations, << >>)

\* ------------------------------------------------- MessageRepository
\* createMessage, first statement: the INSERT, with no embedding.
CreateMessageInsert(be, db, id, conversationId, time, role, content, metadata) ==
    Exec(be, db, SqlInsertMessage,
         <<id, conversationId, time, role, content, JsonStringify(metadata), Null>>)

\* createMessage, second statement: the conversation's updated_at.
CreateMessageTouch(be, db, conversationId, time) ==
    Exec(be, db, SqlTouchConversation, <<time, conversationId>>)

GetMessage(be, db, messageId) == QueryRow(be, db, SqlGetMessage, <<messageId>>)

GetMessagesByConversation(be, db, conversationId) ==
    Query(be, db, SqlMessagesByConversation, <<conversationId>>)

SearchMessages(be, db, keyword, limit) ==
    Query(be, db, SqlSearchMessages, <<<<"%">> \o keyword \o <<"%">>, limit>>)

SearchSimilarMessages(be, db, embedding, limit) ==
    Query(be, db, SqlSearchSimilar, <<Some(embedding), limit>>)

SaveEmbeddingEverywhere(be, db, messageId, embedding) ==
    [ok |-> TRUE,
     db |-> [db EXCEPT !.messages =
                [i \in 1..Len(@) |-> [@[i] EXCEPT !.embedding = Some(embedding)]]]]

SaveEmbedding(be, db, messageId, embedding) ==
    Exec(be, db, SqlSaveEmbedding, <<Some(embedding), messageId>>)

\* ------------------------------------------------- EmbeddingService
\* String.prototype.charCodeAt for the characters of the model's texts.
CharCodeAt(c) == CASE c = "x" -> 120 [] c = "y" -> 121

\* A 32-bit integer from its two 16-bit halves, each given with any carry
\* still in it (ToInt32).
Int32(hi, lo) ==
    LET l == lo % 65536
        h == (hi + (lo - l) \div 65536) % 65536
    IN  IF h >= 32768 THEN (h - 65536) * 65536 + l ELSE h * 65536 + l

\* simpleHash: hash = ((hash << 5) - hash + char) & itself, which is
\* 31 * hash + char in 32 bits, over the characters; then Math.abs.
RECURSIVE HashOf(_)
HashOf(str) ==
    IF str = <<>> THEN 0
    ELSE LET hash == HashOf(SubSeq(str, 1, Len(str) - 1))
             lo == hash % 65536
             hi == (hash - lo) \div 65536
         IN  Int32(31 * hi, 31 * lo + CharCodeAt(str[Len(str)]))

SimpleHash(str) == LET hash == HashOf(str) IN IF hash < 0 THEN 0 - hash ELSE hash

EmbeddingDimension == 384

\* A component of a placeholder embedding is the real number
\* sin(arg) * 0.5 / over, kept as the integer arg and the divisor's name:
\* "magnitude", the square root of the sum of the squares of sin(arg) * 0.5
\* over the vector, or "one".  sin is 0 at no integer but 0.
HalfSine(arg, over) == [arg |-> arg, over |-> over]

IsZero(component) == component.arg = 0

\* generateEmbedding as the store sees it: a vector that depends on the
\* text alone.  Of the placeholder's 384 components the store
\* specifications keep two, all-zero for the hash 0.
GenerateEmbedding(text) ==
    IF SimpleHash(text) = 0 THEN <<0, 0>>
    ELSE IF Len(text) = 1 THEN <<1, 0>> ELSE <<1, 1>>

FindSimilarMessages(be, db, query, limit) ==
    SearchSimilarMessages(be, db, GenerateEmbedding(query), limit)

\* ------------------------------------------------- MCPController, pure parts
DefaultTitle == "new conversation"

\* A plain object is a function from its keys; {} has none.
EmptyObject == << >>

\* A parameter with a default value: the default stands in for an omitted
\* argument.
DefaultArg(arg, default) == IF IsNull(arg) THEN default ELSE arg[1]

\* What callers pass to startConversation as title and metadata, each of
\* them or nothing.  The last object brings its own userId and startedAt.
Titles == {Null, Some("demo")}
Metadatas == {Null,
              Some([topic |-> "cats"]),
              Some([userId |-> "mallory", startedAt |-> MaxTime + 1])}

ConversationMetadataCallerWins(metadata, userId, time) ==
    [k \in DOMAIN metadata \cup {"userId", "startedAt"} |->
        IF k \in DOMAIN metadata THEN metadata[k]
        ELSE IF k = "userId" THEN userId
        ELSE time]

\* startConversation's metadata: { ...metadata, userId, startedAt }.
ConversationMetadata(metadata, userId, time) ==
    [k \in DOMAIN metadata \cup {"userId", "startedAt"} |->
        IF k = "userId" THEN userId
        ELSE IF k = "startedAt" THEN time
        ELSE metadata[k]]

\* messages.findIndex(msg => msg.message_id === id), zero-based, -1 if none.
FindIndex(msgs, id) ==
    IF \E k \in 1..Len(msgs) : msgs[k].message_id = id
    THEN (CHOOSE k \in 1..Len(msgs) :
            /\ msgs[k].message_id = id
            /\ \A j \in 1..(k - 1) : msgs[j].message_id # id) - 1
    ELSE -1

ContextWindowInclusive(msgs, matchedMessageIndex, contextWindowSize) ==
    LET startIndex == Max(0, matchedMessageIndex - contextWindowSize)
        endIndex == Min(Len(msgs) - 1, matchedMessageIndex + contextWindowSize)
    IN  [beforeContext |-> Slice(msgs, startIndex, matchedMessageIndex + 1),
         afterContext |-> Slice(msgs, matchedMessageIndex + 1, endIndex + 1),
         matchedMessage |-> msgs[matchedMessageIndex + 1]]

\* rememberConversationWithContext, after the match: the two slices around
\* the zero-based matchedMessageIndex.
ContextWindow(msgs, matchedMessageIndex, contextWindowSize) ==
    LET startIndex == Max(0, matchedMessageIndex - contextWindowSize)
        endIndex == Min(Len(msgs) - 1, matchedMessageIndex + contextWindowSize)
    IN  [beforeContext |-> Slice(msgs, startIndex, matchedMessageIndex),
         afterContext |-> Slice(msgs, matchedMessageIndex + 1, endIndex + 1),
         matchedMessage |-> msgs[matchedMessageIndex + 1]]

\* ================================================================ state
VARIABLES
    backend,              \* which Database the repositories were built on
    conversations,        \* the conversations table
    messages,             \* the messages table
    activeConversations,  \* MCPController.activeConversations: user -> id
    now,                  \* the clock read by new Date()
    calls,                \* the controller calls in flight, by slot
    tasks,                \* the processMessageEmbedding promises, by message id
    log,                  \* console.error lines "Failed to generate embedding"
    ret,                  \* what the step into this state returned, if it returned
    reuse,                \* per user: the conversation of the addMessage that
                          \* returned last with no startConversation since
    win,                  \* input and output of the last context-window slicing
    memo,                 \* per text: what generateEmbedding returned for it
                          \* first, and how many messages were stored then
    todos,                \* the todos table of the SQLite database
    memories,             \* the memories table of the SQLite database
    sqlite_sequence       \* per AUTOINCREMENT table: the largest rowid given

vars == <<backend, conversations, messages, activeConversations, now,
          calls, tasks, log, todos, memories, sqlite_sequence,
          ret, reuse, win, memo>>

Db == [conversations |-> conversations, messages |-> messages]

\* No addMessage of the user has returned since the last startConversation.
NoReuse == [conv |-> 0, lazy |-> FALSE]

\* One call of a controller method.  pc names the await it is suspended at;
\* hadActive .. activated record what the call saw and did.
IdleCall ==
    [op |-> "idle", pc |-> "idle", user |-> "", role |-> "", content |-> <<>>,
     title |-> Null, metadata |-> Null, read |-> FALSE,
     loaded |-> Null, listed |-> <<>>, idx |-> 0, history |-> << >>,
     conv |-> 0, msg |-> 0, ts |-> 0, hadActive |-> FALSE, created |-> 0,
     expect |-> NoReuse, clean |-> TRUE, activated |-> 0,
     query |-> <<>>, window |-> 0, top |-> Null, conversation |-> Null,
     vector |-> Null, against |-> Null, prev |-> Null, inner |-> Null,
     id |-> 0, completed |-> FALSE, dueDate |-> Null, days |-> 0, range |-> 0]

NoReturn == [call |-> IdleCall, ok |-> TRUE, value |-> Null]

NoWindow == [n |-> 0, i |-> 0, w |-> 0, out |-> Null]

Windows == (0 - 1)..MaxWindow

\* An id that no conversation has or will have.
NoSuchConversation == 0

Idle(s) == calls[s].op = "idle"

\* A new call takes the lowest idle slot.
FreeSlot(s) == Idle(s) /\ \A t \in Slots : t < s => ~Idle(t)

\* addMessage calls that have still to insert their message.
AwaitingInsert == {s \in Slots : calls[s].pc \in {"sc_set", "cm_insert"}
                                  /\ calls[s].op = "addMessage"}

\* A startConversation body ran for user u in slot s: no follow-up of u
\* reuses an earlier conversation, and the addMessage calls of u in flight
\* in other slots have overlapped a startConversation.
Overlapped(cs, s, u) ==
    [t \in Slots |->
        IF t # s /\ cs[t].op = "addMessage" /\ cs[t].user = u
        THEN [cs[t] EXCEPT !.clean = FALSE]
        ELSE cs[t]]

Init ==
    /\ backend \in Backends
    /\ conversations = <<>>
    /\ messages = <<>>
    /\ activeConversations = << >>
    /\ now = 0
    /\ calls = [s \in Slots |-> IdleCall]
    /\ tasks = << >>
    /\ log = 0
    /\ ret = NoReturn
    /\ reuse = [u \in Users |-> NoReuse]
    /\ win = NoWindow
    /\ memo = << >>
    /\ todos = << >>
    /\ memories = << >>
    /\ sqlite_sequence = [todos |-> 0, memories |-> 0]

\* ---------------------------------------------------------------- clock
Tick ==
    /\ now < MaxTime
    /\ now' = now + 1
    /\ ret' = NoReturn
    /\ UNCHANGED <<backend, conversations, messages, activeConversations,
                   calls, tasks, log, reuse, win, memo,
                   todos, memories, sqlite_sequence>>

\* ------------------------------------------------- startConversation
\* Up to the await of createConversation: the INSERT has been issued.
BeginStartConversation(s, call) ==
    LET id == NewConversationId(Db)
        r == CreateConversation(backend, Db, id, now,
                                DefaultArg(call.title, DefaultTitle),
                                ConversationMetadata(
                                    DefaultArg(call.metadata, EmptyObject),
                                    call.user, now))
    IN  /\ Len(conversations) < MaxConvs
        /\ conversations' = r.db.conversations
        /\ messages' = r.db.messages
        /\ reuse' = [reuse EXCEPT ![call.user] = NoReuse]
        /\ IF r.ok
           THEN /\ calls' = Overlapped(
                      [calls EXCEPT ![s] = [call EXCEPT !.pc = "sc_set",
                                                       !.conv = id,
                                                       !.ts = now,
                                                       !.created = @ +
                                                           Len(r.db.conversations)
                                                           - Len(conversations)]],
                      s, call.user)
                /\ ret' = NoReturn
           ELSE /\ calls' = Overlapped([calls EXCEPT ![s] = IdleCall], s, call.user)
                /\ ret' = [ok |-> FALSE, value |-> Null, call |-> call]

StartConversation(u, title, metadata) ==
    \E s \in Slots :
        /\ FreeSlot(s)
        /\ BeginStartConversation(s,
              [IdleCall EXCEPT !.op = "startConversation", !.user = u,
                               !.title = title, !.metadata = metadata,
                               !.hadActive = u \in DOMAIN activeConversations])
        /\ UNCHANGED <<backend, activeConversations, now, tasks, log, win, memo,
                   todos, memories, sqlite_sequence>>

SetActiveIfAbsent(active, userId, conversationId) ==
    [u \in DOMAIN active \cup {userId} |->
        IF u \in DOMAIN active THEN active[u] ELSE conversationId]

SetActiveElsewhere(active, userId, conversationId) ==
    [u \in DOMAIN active \cup {userId} |-> 0]

\* activeConversations.set(userId, conversationId).
SetActive(active, userId, conversationId) ==
    [u \in DOMAIN active \cup {userId} |->
        IF u = userId THEN conversationId ELSE active[u]]

\* createConversation has returned: the conversation becomes the user's
\* active one and startConversation returns its id.
FinishStartConversation(s) ==
    LET call == calls[s]
        active == SetActive(activeConversations, call.user, call.conv)
        done == [call EXCEPT !.activated = active[call.user]]
    IN  /\ call.pc = "sc_set"
        /\ activeConversations' = active
        /\ reuse' = [reuse EXCEPT ![call.user] = NoReuse]
        /\ IF call.op = "startConversation"
           THEN /\ calls' = Overlapped([calls EXCEPT ![s] = IdleCall], s, call.user)
                /\ ret' = [ok |-> TRUE, value |-> Some(call.conv), call |-> done]
           ELSE /\ calls' = Overlapped(
                      [calls EXCEPT ![s] = [done EXCEPT !.pc = "cm_insert"]],
                      s, call.user)
                /\ ret' = NoReturn
        /\ UNCHANGED <<backend, conversations, messages, now, tasks, log, win, memo,
                   todos, memories, sqlite_sequence>>

\* --------------------------------------------------------- addMessage
\* createMessage up to its first await: id and timestamp are taken and the
\* INSERT is issued.
BeginCreateMessage(s, call) ==
    LET id == NewMessageId(Db)
        r == CreateMessageInsert(backend, Db, id, call.conv, now,
                                 call.role, call.content, << >>)
    IN  /\ conversations' = r.db.conversations
        /\ messages' = r.db.messages
        /\ IF r.ok
           THEN /\ calls' = [calls EXCEPT ![s] = [call EXCEPT !.pc = "cm_touch",
                                                            !.msg = id,
                                                            !.ts = now]]
                /\ ret' = NoReturn
           ELSE /\ calls' = [calls EXCEPT ![s] = IdleCall]
                /\ ret' = [ok |-> FALSE, value |-> Null, call |-> call]

\* addMessage up to its first await.
BeginAddMessage(u, role, content) ==
    \E s \in Slots :
        LET hasActive == u \in DOMAIN activeConversations
            call == [IdleCall EXCEPT !.op = "addMessage", !.user = u,
                                     !.role = role, !.content = content,
                                     !.hadActive = hasActive,
                                     !.expect = reuse[u]]
        IN  /\ FreeSlot(s)
            /\ Len(messages) + Cardinality(AwaitingInsert) < MaxMsgs
            /\ IF hasActive
               THEN /\ BeginCreateMessage(s,
                          [call EXCEPT !.conv = activeConversations[u]])
                    /\ reuse' = reuse
               ELSE BeginStartConversation(s, call)
            /\ UNCHANGED <<backend, activeConversations, now, tasks, log, win, memo,
                   todos, memories, sqlite_sequence>>

AddUserMessage(u, content) == BeginAddMessage(u, "user", content)

AddAssistantMessage(u, content) == BeginAddMessage(u, "assistant", content)

\* The implicit startConversation has returned: createMessage is called.
ResumeAddMessage(s) ==
    /\ calls[s].pc = "cm_insert"
    /\ BeginCreateMessage(s, calls[s])
    /\ UNCHANGED <<backend, activeConversations, now, tasks, log, reuse, win, memo,
                   todos, memories, sqlite_sequence>>

\* createMessage after the INSERT: the conversation's updated_at is bumped.
TouchConversation(s) ==
    LET call == calls[s]
        r == CreateMessageTouch(backend, Db, call.conv, call.ts)
    IN  /\ call.pc = "cm_touch"
        /\ conversations' = r.db.conversations
        /\ messages' = r.db.messages
        /\ IF ~r.ok
           THEN /\ calls' = [calls EXCEPT ![s] = IdleCall]
                /\ ret' = [ok |-> FALSE, value |-> Null, call |-> call]
           ELSE IF call.op = "addMessage"
           THEN /\ calls' = [calls EXCEPT ![s].pc = "am_launch"]
                /\ ret' = NoReturn
           ELSE /\ calls' = [calls EXCEPT ![s] = IdleCall]
                /\ ret' = [ok |-> TRUE, value |-> Some(call.msg), call |-> call]
        /\ UNCHANGED <<backend, activeConversations, now, tasks, log, reuse, win, memo,
                   todos, memories, sqlite_sequence>>

TouchRetried(s) ==
    /\ calls[s].pc = "cm_touch"
    /\ calls' = [calls EXCEPT ![s].pc = "cm_insert"]
    /\ ret' = NoReturn
    /\ UNCHANGED <<backend, conversations, messages, activeConversations,
                   now, tasks, log, reuse, win, memo,
                   todos, memories, sqlite_sequence>>

\* The store rejects the UPDATE: createMessage rejects after its INSERT, and
\* with it the addMessage that called it.
TouchFails(s) ==
    /\ calls[s].pc = "cm_touch"
    /\ calls' = [calls EXCEPT ![s] = IdleCall]
    /\ ret' = [ok |-> FALSE, value |-> Null, call |-> calls[s]]
    /\ UNCHANGED <<backend, conversations, messages, activeConversations,
                   now, tasks, log, reuse, win, memo,
                   todos, memories, sqlite_sequence>>

\* The store rejects the INSERT of createConversation: startConversation
\* rejects before activeConversations.set, and with it the addMessage that
\* called it for a user without an active conversation.
CreateConversationFails(u, op) ==
    \E s \in Slots :
        LET call == [IdleCall EXCEPT !.op = op, !.user = u,
                                     !.hadActive = u \in DOMAIN activeConversations]
        IN  /\ FreeSlot(s)
            /\ op = "addMessage" => u \notin DOMAIN activeConversations
            /\ calls' = Overlapped(calls, s, u)
            /\ reuse' = [reuse EXCEPT ![u] = NoReuse]
            /\ ret' = [ok |-> FALSE, value |-> Null, call |-> call]
            /\ UNCHANGED <<backend, conversations, messages, activeConversations,
                           now, tasks, log, win, memo,
                           todos, memories, sqlite_sequence>>

\* The store rejects the INSERT of createMessage: createMessage rejects
\* with nothing written, and with it the addMessage that called it.
InsertFails(s) ==
    /\ calls[s].pc = "cm_insert"
    /\ calls' = [calls EXCEPT ![s] = IdleCall]
    /\ ret' = [ok |-> FALSE, value |-> Null, call |-> calls[s]]
    /\ UNCHANGED <<backend, conversations, messages, activeConversations,
                   now, tasks, log, reuse, win, memo,
                   todos, memories, sqlite_sequence>>

\* MessageRepository.createMessage called directly, with the id of a stored
\* conversation or with an id that names none.
CreateMessage(conversationId, role, content) ==
    \E s \in Slots :
        /\ FreeSlot(s)
        /\ conversationId \in {NoSuchConversation} \cup 1..Len(conversations)
        /\ Len(messages) + Cardinality(AwaitingInsert) < MaxMsgs
        /\ BeginCreateMessage(s,
              [IdleCall EXCEPT !.op = "createMessage", !.conv = conversationId,
                               !.role = role, !.content = content])
        /\ UNCHANGED <<backend, activeConversations, now, tasks, log, reuse, win, memo,
                   todos, memories, sqlite_sequence>>

\* processMessageEmbedding(messageId, content) is called and not awaited.
Launch(ts, messageId, content) ==
    [m \in DOMAIN ts \cup {messageId} |->
        IF m = messageId THEN [state |-> "pending", content |-> content]
        ELSE ts[m]]

\* createMessage has returned: the embedding step is launched and addMessage
\* returns the message id.
FinishAddMessage(s) ==
    LET call == calls[s]
    IN  /\ call.pc = "am_launch"
        /\ tasks' = Launch(tasks, call.msg, call.content)
        /\ calls' = [calls EXCEPT ![s] = IdleCall]
        /\ ret' = [ok |-> TRUE, value |-> Some(call.msg), call |-> call]
        /\ reuse' = [reuse EXCEPT ![call.user] =
                        IF call.clean
                        THEN [conv |-> call.conv, lazy |-> ~call.hadActive]
                        ELSE @]
        /\ UNCHANGED <<backend, conversations, messages, activeConversations,
                       now, log, win, memo,
                   todos, memories, sqlite_sequence>>

\* ------------------------------------------------ getCurrentConversation
\* No active conversation returns [] at once; otherwise the answer of
\* getMessagesByConversation for the active conversation.
GetCurrentConversation(u) ==
    LET call == [IdleCall EXCEPT !.op = "getCurrentConversation", !.user = u]
    IN  /\ \E s \in Slots : FreeSlot(s)
        /\ IF u \notin DOMAIN activeConversations
           THEN ret' = [ok |-> TRUE, value |-> Some(<<>>), call |-> call]
           ELSE \E msgs \in GetMessagesByConversation(backend, Db,
                                                     activeConversations[u]) :
                    ret' = [ok |-> TRUE, value |-> Some(msgs),
                            call |-> [call EXCEPT !.read = TRUE,
                                                  !.conv = activeConversations[u]]]
        /\ UNCHANGED <<backend, conversations, messages, activeConversations,
                       now, calls, tasks, log, reuse, win, memo,
                   todos, memories, sqlite_sequence>>

\* ------------------------------------------------ the embedding step
Pending(m) == m \in DOMAIN tasks /\ tasks[m].state = "pending"

\* processMessageEmbedding after generateEmbedding: saveEmbedding is called.
ProcessMessageEmbedding(m) ==
    LET r == SaveEmbedding(backend, Db, m, GenerateEmbedding(tasks[m].content))
    IN  /\ Pending(m)
        /\ conversations' = r.db.conversations
        /\ messages' = r.db.messages
        /\ tasks' = [tasks EXCEPT ![m].state = IF r.ok THEN "saved" ELSE "failed"]
        /\ log' = IF r.ok THEN log ELSE log + 1
        /\ ret' = NoReturn
        /\ UNCHANGED <<backend, activeConversations, now, calls, reuse, win, memo,
                   todos, memories, sqlite_sequence>>

EmbeddingFailsUnlogged(m) ==
    /\ Pending(m)
    /\ tasks' = [tasks EXCEPT ![m].state = "failed"]
    /\ ret' = NoReturn
    /\ UNCHANGED <<backend, conversations, messages, activeConversations,
                   now, calls, log, reuse, win, memo,
                   todos, memories, sqlite_sequence>>

\* generateEmbedding or saveEmbedding rejects: the .catch handler logs it.
EmbeddingFails(m) ==
    /\ Pending(m)
    /\ tasks' = [tasks EXCEPT ![m].state = "failed"]
    /\ log' = log + 1
    /\ ret' = NoReturn
    /\ UNCHANGED <<backend, conversations, messages, activeConversations,
                   now, calls, reuse, win, memo,
                   todos, memories, sqlite_sequence>>

\* The stored row of message id.
Row(id) == messages[CHOOSE i \in 1..Len(messages) : messages[i].message_id = id]

\* MessageRepository.saveEmbedding called directly by an embedding worker.
SaveEmbeddingCall(m, v) ==
    LET r == SaveEmbedding(backend, Db, m, v)
    IN  /\ m \in 1..Len(messages)
        /\ conversations' = r.db.conversations
        /\ messages' = r.db.messages
        /\ ret' = [ok |-> r.ok, value |-> Null,
                   call |-> [IdleCall EXCEPT !.op = "saveEmbedding", !.msg = m,
                                             !.vector = Some(v),
                                             !.prev = Row(m).embedding]]
        /\ UNCHANGED <<backend, activeConversations, now, calls, tasks, log,
                       reuse, win, memo,
                   todos, memories, sqlite_sequence>>

\* ------------------------------------------------ the tool interface
\* String(error) of an Error object.
ErrorString(error) == <<"Error: ", error.message>>

\* The error a rejected store call carries.
StoreError == [message |-> "query failed"]

\* A tool result: one text content and the error flag.
ToolResult(payload, isError) ==
    [content |-> <<[type |-> "text", text |-> JsonStringify(payload)]>>,
     isError |-> isError]

SearchReferenceResponseFlagged(outcome) ==
    IF ~outcome.ok
    THEN ToolResult([error |-> ErrorString(outcome.value[1])], TRUE)
    ELSE IF IsNull(outcome.value)
    THEN ToolResult([found |-> FALSE], TRUE)
    ELSE ToolResult([found |-> TRUE,
                     conversation |-> outcome.value[1].conversation,
                     messages |-> outcome.value[1].messages,
                     matchedMessageIndex |-> outcome.value[1].matchedMessageIndex],
                    FALSE)

\* The search_reference handler around the outcome of
\* getConversationByReference: catch gives the error payload, a null result
\* { found: false }, a result { found: true, ... }.
SearchReferenceResponse(outcome) ==
    IF ~outcome.ok
    THEN ToolResult([error |-> ErrorString(outcome.value[1])], TRUE)
    ELSE IF IsNull(outcome.value)
    THEN ToolResult([found |-> FALSE], FALSE)
    ELSE ToolResult([found |-> TRUE,
                     conversation |-> outcome.value[1].conversation,
                     messages |-> outcome.value[1].messages,
                     matchedMessageIndex |-> outcome.value[1].matchedMessageIndex],
                    FALSE)

\* What the caller of a controller method gets: the outcome itself, or,
\* when the caller is the search_reference handler, the handler's result.
Reply(outcome) ==
    IF outcome.call.op = "search_reference"
    THEN [ok |-> TRUE,
          value |-> Some(SearchReferenceResponse(outcome)),
          call |-> [outcome.call EXCEPT !.inner =
                        Some([ok |-> outcome.ok, value |-> outcome.value])]]
    ELSE outcome

\* ------------------------------------- rememberConversationWithContext
FindReferenceUnchecked(call) ==
    \E s \in Slots :
      \E similarMessages \in FindSimilarMessages(backend, Db, call.query, 1) :
            /\ FreeSlot(s)
            /\ IF Len(similarMessages) = 0
               THEN /\ calls' = calls
                    /\ ret' = [ok |-> FALSE, value |-> Null, call |-> call]
               ELSE /\ calls' = [calls EXCEPT ![s] =
                          [call EXCEPT !.pc = "r_conv",
                                       !.top = Some(similarMessages[1])]]
                    /\ ret' = NoReturn
            /\ UNCHANGED <<backend, conversations, messages,
                           activeConversations, now, tasks, log, reuse, win,
                   memo,
                   todos, memories, sqlite_sequence>>

\* getConversationByReference up to the answer of the similarity search
\* (limit 1): no match returns null.
FindReference(call) ==
    \E s \in Slots :
      \E similarMessages \in FindSimilarMessages(backend, Db, call.query, 1) :
            /\ FreeSlot(s)
            /\ IF Len(similarMessages) = 0
               THEN /\ calls' = calls
                    /\ ret' = Reply([ok |-> TRUE, value |-> Null, call |-> call])
               ELSE /\ calls' = [calls EXCEPT ![s] =
                          [call EXCEPT !.pc = "r_conv",
                                       !.top = Some(similarMessages[1])]]
                    /\ ret' = NoReturn
            /\ UNCHANGED <<backend, conversations, messages,
                           activeConversations, now, tasks, log, reuse, win,
                   memo,
                   todos, memories, sqlite_sequence>>

GetConversationByReference(q) ==
    FindReference([IdleCall EXCEPT !.op = "getConversationByReference",
                                   !.query = q])

\* rememberConversationWithContext starts with getConversationByReference.
RememberConversationWithContext(q, w) ==
    FindReference([IdleCall EXCEPT !.op = "remember", !.query = q,
                                   !.window = w])

\* getConversation(topMessage.conversation_id): not found returns null.
LoadConversation(s) ==
    LET call == calls[s]
    IN  /\ call.pc = "r_conv"
        /\ \E conversation \in
                GetConversation(backend, Db, call.top[1].conversation_id) :
             IF IsNull(conversation)
             THEN /\ calls' = [calls EXCEPT ![s] = IdleCall]
                  /\ ret' = Reply([ok |-> TRUE, value |-> Null, call |-> call])
             ELSE /\ calls' = [calls EXCEPT ![s] =
                        [call EXCEPT !.pc = "r_msgs",
                                     !.conversation = conversation]]
                  /\ ret' = NoReturn
        /\ UNCHANGED <<backend, conversations, messages, activeConversations,
                       now, tasks, log, reuse, win, memo,
                   todos, memories, sqlite_sequence>>

\* The store rejects getConversation or getMessagesByConversation:
\* getConversationByReference rejects with the store's error.
ReferenceFails(s) ==
    /\ calls[s].pc \in {"r_conv", "r_msgs"}
    /\ calls' = [calls EXCEPT ![s] = IdleCall]
    /\ ret' = Reply([ok |-> FALSE, value |-> Some(StoreError), call |-> calls[s]])
    /\ UNCHANGED <<backend, conversations, messages, activeConversations,
                   now, tasks, log, reuse, win, memo,
                   todos, memories, sqlite_sequence>>

\* The search_reference tool: the handler calls getConversationByReference.
SearchReference(q) ==
    FindReference([IdleCall EXCEPT !.op = "search_reference", !.query = q])

\* What getConversationByReference returns for the reloaded list:
\* matchedMessageIndex is undefined when findIndex gives -1.
Referenced(conversation, msgs, topMessage) ==
    LET matchedMessageIndex == FindIndex(msgs, topMessage.message_id)
    IN  Some([conversation |-> conversation,
              messages |-> msgs,
              matchedMessageIndex |-> IF matchedMessageIndex >= 0
                                      THEN Some(matchedMessageIndex)
                                      ELSE Null])

\* What rememberConversationWithContext returns for the reloaded list.
Remembered(conversation, msgs, topMessage, contextWindowSize) ==
    LET matchedMessageIndex == FindIndex(msgs, topMessage.message_id)
        c == ContextWindow(msgs, matchedMessageIndex, contextWindowSize)
    IN  IF matchedMessageIndex < 0
        THEN Null
        ELSE Some([conversation |-> conversation,
                   messages |-> msgs,
                   beforeContext |-> c.beforeContext,
                   afterContext |-> c.afterContext,
                   matchedMessage |-> c.matchedMessage])

\* getMessagesByConversation, findIndex and the two slices.
LoadMessages(s) ==
    LET call == calls[s]
    IN  /\ call.pc = "r_msgs"
        /\ \E msgs \in GetMessagesByConversation(backend, Db,
                            call.top[1].conversation_id) :
             ret' = Reply([ok |-> TRUE,
                           value |-> IF call.op = "remember"
                                     THEN Remembered(call.conversation[1], msgs,
                                                     call.top[1], call.window)
                                     ELSE Referenced(call.conversation[1], msgs,
                                                     call.top[1]),
                           call |-> [call EXCEPT !.loaded = Some(msgs)]])
        /\ calls' = [calls EXCEPT ![s] = IdleCall]
        /\ UNCHANGED <<backend, conversations, messages, activeConversations,
                       now, tasks, log, reuse, win, memo,
                   todos, memories, sqlite_sequence>>

\* ------------------------------------------------ getAllConversations
\* ConversationRepository.getAllConversations called directly.
GetAllConversationsCall ==
    /\ \E convs \in GetAllConversations(backend, Db) :
          ret' = [ok |-> TRUE, value |-> Some(convs),
                  call |-> [IdleCall EXCEPT !.op = "getAllConversations"]]
    /\ UNCHANGED <<backend, conversations, messages, activeConversations,
                   now, calls, tasks, log, reuse, win, memo,
                   todos, memories, sqlite_sequence>>

\* ------------------------------------------- getAllConversationHistory
\* { conversations, messages } as returned.
History(call) == Some([conversations |-> call.listed, messages |-> call.history])

\* Up to the answer of getAllConversations; with no conversation the loop
\* body never runs.
GetAllConversationHistory ==
    \E s \in Slots :
      \E convs \in GetAllConversations(backend, Db) :
        LET call == [IdleCall EXCEPT !.op = "getAllConversationHistory",
                                     !.pc = "h_load", !.listed = convs]
        IN  /\ FreeSlot(s)
            /\ IF Len(convs) = 0
               THEN /\ calls' = calls
                    /\ ret' = [ok |-> TRUE, value |-> History(call), call |-> call]
               ELSE /\ calls' = [calls EXCEPT ![s] = call]
                    /\ ret' = NoReturn
            /\ UNCHANGED <<backend, conversations, messages,
                           activeConversations, now, tasks, log, reuse, win,
                   memo,
                   todos, memories, sqlite_sequence>>

\* messages[conversation.conversation_id] = conversationMessages.
SetMessages(history, conversationId, conversationMessages) ==
    [c \in DOMAIN history \cup {conversationId} |->
        IF c = conversationId THEN conversationMessages ELSE history[c]]

\* One turn of the loop: the messages of the next listed conversation are
\* loaded; after the last one the history is returned.
LoadHistory(s) ==
    LET call == calls[s]
        conversation == call.listed[call.idx + 1]
    IN  /\ call.pc = "h_load"
        /\ \E msgs \in GetMessagesByConversation(backend, Db,
                            conversation.conversation_id) :
             LET next == [call EXCEPT !.idx = @ + 1,
                                      !.history = SetMessages(@,
                                          conversation.conversation_id, msgs)]
             IN  IF next.idx = Len(call.listed)
                 THEN /\ calls' = [calls EXCEPT ![s] = IdleCall]
                      /\ ret' = [ok |-> TRUE, value |-> History(next),
                                 call |-> next]
                 ELSE /\ calls' = [calls EXCEPT ![s] = next]
                      /\ ret' = NoReturn
        /\ UNCHANGED <<backend, conversations, messages, activeConversations,
                       now, tasks, log, reuse, win, memo,
                   todos, memories, sqlite_sequence>>

\* ------------------------------------------------ generateEmbedding
CreatePlaceholderEmbeddingSalted(text) ==
    LET hash == SimpleHash(text) + Len(messages)
    IN  [i \in 1..EmbeddingDimension |-> HalfSine(hash * i, "magnitude")]

\* createPlaceholderEmbedding: 384 values sin(hash * (i + 1)) * 0.5 for
\* i = 0 .. 383, each divided by (magnitude || 1).
CreatePlaceholderEmbedding(text) ==
    LET hash == SimpleHash(text)
        embedding == [i \in 1..EmbeddingDimension |-> HalfSine(hash * i, "one")]
        magnitudeIsZero == \A i \in 1..EmbeddingDimension : IsZero(embedding[i])
        divisor == IF magnitudeIsZero THEN "one" ELSE "magnitude"
    IN  [i \in 1..EmbeddingDimension |-> HalfSine(embedding[i].arg, divisor)]

\* The texts generateEmbedding is called with: the message contents and the
\* empty string.
Texts == Contents \cup {<<>>}

\* generateEmbedding(text) called directly: the placeholder embedding.
GenerateEmbeddingCall(text) ==
    LET embedding == CreatePlaceholderEmbedding(text)
    IN  /\ ret' = [ok |-> TRUE, value |-> Some(embedding),
                   call |-> [IdleCall EXCEPT !.op = "generateEmbedding",
                                             !.content = text]]
        /\ memo' = IF text \in DOMAIN memo THEN memo
                   ELSE [t \in DOMAIN memo \cup {text} |->
                            IF t = text
                            THEN [embedding |-> embedding,
                                  stored |-> Len(messages)]
                            ELSE memo[t]]
        /\ UNCHANGED <<backend, conversations, messages, activeConversations,
                       now, calls, tasks, log, reuse, win,
                       todos, memories, sqlite_sequence>>

\* ------------------------------------------------ cosine_similarity
\* The macro applied to two vectors.
CosineSimilarityCall(a, b) ==
    /\ ret' = [ok |-> TRUE, value |-> Some(CosineSimilarity(a, b)),
               call |-> [IdleCall EXCEPT !.op = "cosine_similarity",
                                         !.vector = Some(a),
                                         !.against = Some(b)]]
    /\ UNCHANGED <<backend, conversations, messages, activeConversations,
                   now, calls, tasks, log, reuse, win, memo,
                   todos, memories, sqlite_sequence>>

\* =============================================== todos and memories
\* The SQLite database of the todo and memory repositories.  Every function
\* here is synchronous: it runs from its call to its return in one step.

\* The inputs of the todo functions.
TodoTitles == {"a"}
DueDates == {Null} \cup {Some(t) : t \in 0..(MaxClock + MaxDays)}
RowIds == 1..(Max(MaxTodos, MaxMemories) + 1)
Days == 0..MaxDays
Ranges == (0 - 1)..MaxRange

\* id INTEGER PRIMARY KEY AUTOINCREMENT: one more than the largest rowid the
\* table ever gave.
Rowid(rows, seq) ==
    seq + 1

\* Date.prototype.toISOString: the instant as text; texts of this one format
\* compare as their instants do.
ToISOString(date) == [iso |-> date]

\* due_date <= ? and due_date >= ? on two texts written by toISOString.
IsoLE(a, b) == a.iso <= b.iso

\* The rows of a table that pass a test, in every order ORDER BY allows:
\* keep holds the positions of the rows that pass, before the pairs of
\* positions that ORDER BY puts in this order.
Ordered(rows, keep, before) ==
    LET kept == SelectSeq([i \in 1..Len(rows) |-> i], LAMBDA i : i \in keep)
        orders == {o \in Orderings(kept) :
                      \A i, j \in 1..Len(o) :
                          i < j => <<o[j], o[i]>> \notin before}
    IN  {[i \in 1..Len(o) |-> rows[o[i]]] : o \in orders}

\* createTodo: INSERT INTO todos (title, description, due_date); completed
\* and created_at take their defaults.
CreateTodo(rows, seq, todo, time) ==
    LET id == Rowid(rows, seq)
    IN  [rows |-> Append(rows, [id |-> id,
                                title |-> todo.title,
                                description |->
                                    IF todo.description = Some("") THEN Null
                                    ELSE todo.description,
                                due_date |-> IF IsNull(todo.due_date) THEN Null
                                             ELSE Some(ToISOString(todo.due_date[1])),
                                completed |-> 0,
                                created_at |-> time]),
         lastInsertRowid |-> id]

\* getTodoById: SELECT * FROM todos WHERE id = ?, the row or null.
GetTodoById(rows, id) ==
    IF \E i \in 1..Len(rows) : rows[i].id = id
    THEN Some(rows[CHOOSE i \in 1..Len(rows) : rows[i].id = id])
    ELSE Null

\* getAllTodos: SELECT * FROM todos ORDER BY created_at DESC.
GetAllTodos(rows) ==
    LET all == 1..Len(rows)
        before == {p \in all \X all :
                      rows[p[1]].created_at > rows[p[2]].created_at}
    IN  Ordered(rows, all, before)

\* searchTodos without searchText: the WHERE clause built from the options
\* that are given, ORDER BY due_date IS NULL, due_date ASC, created_at DESC.
SearchTodos(rows, options) ==
    LET all == 1..Len(rows)
        keep == {i \in all :
                    /\ (~IsNull(options.completed) =>
                           rows[i].completed =
                               (IF options.completed[1] THEN 1 ELSE 0))
                    /\ (~IsNull(options.dueBefore) =>
                           (/\ ~IsNull(rows[i].due_date)
                            /\ IsoLE(rows[i].due_date[1],
                                     ToISOString(options.dueBefore[1]))))
                    /\ (~IsNull(options.dueAfter) =>
                           (/\ ~IsNull(rows[i].due_date)
                            /\ IsoLE(ToISOString(options.dueAfter[1]),
                                     rows[i].due_date[1])))}
        Key(i) == IF IsNull(rows[i].due_date)
                  THEN <<1, 0, 0 - rows[i].created_at>>
                  ELSE <<0, rows[i].due_date[1].iso, 0 - rows[i].created_at>>
        Less(a, b) == \/ a[1] < b[1]
                      \/ a[1] = b[1] /\ a[2] < b[2]
                      \/ a[1] = b[1] /\ a[2] = b[2] /\ a[3] < b[3]
        before == {p \in all \X all : Less(Key(p[1]), Key(p[2]))}
    IN  Ordered(rows, keep, before)

\* updateTodoStatus with changes counting only the rows whose completed
\* column got another value.
UpdateTodoStatusChangedOnly(rows, id, completed) ==
    [rows |-> [i \in 1..Len(rows) |->
                  IF rows[i].id = id
                  THEN [rows[i] EXCEPT !.completed = IF completed THEN 1 ELSE 0]
                  ELSE rows[i]],
     changes |-> Cardinality({i \in 1..Len(rows) :
                                /\ rows[i].id = id
                                /\ rows[i].completed #
                                       (IF completed THEN 1 ELSE 0)})]

\* updateTodoStatus: UPDATE todos SET completed = ? WHERE id = ?; changes
\* counts the rows the WHERE clause matched.
UpdateTodoStatus(rows, id, completed) ==
    [rows |-> [i \in 1..Len(rows) |->
                  IF rows[i].id = id
                  THEN [rows[i] EXCEPT !.completed = IF completed THEN 1 ELSE 0]
                  ELSE rows[i]],
     changes |-> Cardinality({i \in 1..Len(rows) : rows[i].id = id})]

\* deleteTodo: DELETE FROM todos WHERE id = ?.
DeleteTodo(rows, id) ==
    [rows |-> SelectSeq(rows, LAMBDA r : r.id # id),
     changes |-> Cardinality({i \in 1..Len(rows) : rows[i].id = id})]

\* createMemory: INSERT INTO memories (content); created_at is
\* CURRENT_TIMESTAMP.
CreateMemory(rows, seq, memory, time) ==
    LET id == Rowid(rows, seq)
    IN  [rows |-> Append(rows, [id |-> id, content |-> memory.content,
                                created_at |-> time]),
         lastInsertRowid |-> id]

\* getMemoryById: SELECT * FROM memories WHERE id = ?, the row or null.
GetMemoryById(rows, id) ==
    IF \E i \in 1..Len(rows) : rows[i].id = id
    THEN Some(rows[CHOOSE i \in 1..Len(rows) : rows[i].id = id])
    ELSE Null

\* LIMIT ?: a negative limit is no limit.
SqliteLimit(rows, n) == IF n < 0 THEN rows ELSE Limit(rows, n)

\* getMemoriesAroundId: the target's created_at; before = the rows WHERE
\* created_at > ? ORDER BY created_at ASC LIMIT ?, reversed; current = the
\* row; after = the rows WHERE created_at < ? ORDER BY created_at DESC
\* LIMIT ?.
GetMemoriesAroundId(rows, id, range) ==
    LET all == 1..Len(rows)
        targetMemory == GetMemoryById(rows, id)
        at == targetMemory[1].created_at
        asc == {p \in all \X all : rows[p[1]].created_at < rows[p[2]].created_at}
        desc == {p \in all \X all : rows[p[1]].created_at > rows[p[2]].created_at}
        greater == {i \in all : rows[i].created_at > at}
        less == {i \in all : rows[i].created_at < at}
        Reverse(arr) == [i \in 1..Len(arr) |-> arr[Len(arr) + 1 - i]]
    IN  IF IsNull(targetMemory)
        THEN {[before |-> <<>>, current |-> Null, after |-> <<>>]}
        ELSE {[before |-> Reverse(SqliteLimit(b, range)),
               current |-> targetMemory,
               after |-> SqliteLimit(a, range)] :
                 b \in Ordered(rows, greater, asc),
                 a \in Ordered(rows, less, desc)}

\* The clock of the todo and memory functions, counted in days.
TickDay ==
    /\ now < MaxClock
    /\ now' = now + 1
    /\ ret' = NoReturn
    /\ UNCHANGED <<backend, conversations, messages, activeConversations,
                   calls, tasks, log, reuse, win, memo,
                   todos, memories, sqlite_sequence>>

\* What a todo function returns, and the call that returned it.
Returned(op, value, id, completed, dueDate, days, range) ==
    [ok |-> TRUE, value |-> Some(value),
     call |-> [IdleCall EXCEPT !.op = op, !.id = id, !.completed = completed,
                               !.dueDate = dueDate, !.days = days,
                               !.range = range]]

\* createTodoWithMemory(title, undefined, dueDate): createTodo, then
\* createMemory of the creation.
CreateTodoWithMemory(title, dueDate) ==
    LET todoInput == [title |-> title, description |-> Null,
                      due_date |-> dueDate]
        created == CreateTodo(todos, sqlite_sequence.todos, todoInput, now)
        dueDateStr == IF IsNull(dueDate) THEN Null
                      ELSE Some([localeDate |-> dueDate[1]])
        memoryInput == [content |-> <<"created", title, dueDateStr>>]
        recorded == CreateMemory(memories, sqlite_sequence.memories,
                                 memoryInput, now)
    IN  /\ sqlite_sequence.todos < MaxTodos
        /\ sqlite_sequence.memories < MaxMemories
        /\ todos' = created.rows
        /\ memories' = recorded.rows
        /\ sqlite_sequence' = [todos |-> created.lastInsertRowid,
                               memories |-> recorded.lastInsertRowid]
        /\ ret' = Returned("createTodoWithMemory", created.lastInsertRowid,
                           0, FALSE, dueDate, 0, 0)
        /\ UNCHANGED <<backend, conversations, messages, activeConversations,
                       now, calls, tasks, log, reuse, win, memo>>

\* The common shape of completeTodoWithMemory and uncompleteTodoWithMemory:
\* updateTodoStatus, then on success getTodoById and createMemory.
StatusWithMemory(op, id, completed) ==
    LET updated == UpdateTodoStatus(todos, id, completed)
        success == updated.changes > 0
        todo == GetTodoById(updated.rows, id)
        memoryInput == [content |-> <<IF completed THEN "completed"
                                      ELSE "uncompleted", todo[1].title>>]
        recorded == CreateMemory(memories, sqlite_sequence.memories,
                                 memoryInput, now)
    IN  /\ success => sqlite_sequence.memories < MaxMemories
        /\ todos' = updated.rows
        /\ IF success /\ ~IsNull(todo)
           THEN /\ memories' = recorded.rows
                /\ sqlite_sequence' =
                      [sqlite_sequence EXCEPT !.memories = recorded.lastInsertRowid]
           ELSE UNCHANGED <<memories, sqlite_sequence>>
        /\ ret' = Returned(op, success, id, completed, Null, 0, 0)
        /\ UNCHANGED <<backend, conversations, messages, activeConversations,
                       now, calls, tasks, log, reuse, win, memo>>

CompleteTodoWithMemory(id) == StatusWithMemory("completeTodoWithMemory", id, TRUE)

UncompleteTodoWithMemory(id) ==
    StatusWithMemory("uncompleteTodoWithMemory", id, FALSE)

\* deleteTodoWithMemory with the todo read after the DELETE.
DeleteTodoWithMemoryReadLate(id) ==
    LET deleted == DeleteTodo(todos, id)
        todo == GetTodoById(deleted.rows, id)
        success == deleted.changes > 0
        memoryInput == [content |-> <<"deleted", todo[1].title>>]
        recorded == CreateMemory(memories, sqlite_sequence.memories,
                                 memoryInput, now)
    IN  /\ success => sqlite_sequence.memories < MaxMemories
        /\ todos' = deleted.rows
        /\ IF success /\ ~IsNull(todo)
           THEN /\ memories' = recorded.rows
                /\ sqlite_sequence' =
                      [sqlite_sequence EXCEPT !.memories = recorded.lastInsertRowid]
           ELSE UNCHANGED <<memories, sqlite_sequence>>
        /\ ret' = Returned("deleteTodoWithMemory", success, id, FALSE, Null, 0, 0)
        /\ UNCHANGED <<backend, conversations, messages, activeConversations,
                       now, calls, tasks, log, reuse, win, memo>>

\* deleteTodoWithMemory: getTodoById, deleteTodo, then createMemory when the
\* DELETE changed a row and the todo was read.
DeleteTodoWithMemory(id) ==
    LET todo == GetTodoById(todos, id)
        deleted == DeleteTodo(todos, id)
        success == deleted.changes > 0
        memoryInput == [content |-> <<"deleted", todo[1].title>>]
        recorded == CreateMemory(memories, sqlite_sequence.memories,
                                 memoryInput, now)
    IN  /\ success => sqlite_sequence.memories < MaxMemories
        /\ todos' = deleted.rows
        /\ IF success /\ ~IsNull(todo)
           THEN /\ memories' = recorded.rows
                /\ sqlite_sequence' =
                      [sqlite_sequence EXCEPT !.memories = recorded.lastInsertRowid]
           ELSE UNCHANGED <<memories, sqlite_sequence>>
        /\ ret' = Returned("deleteTodoWithMemory", success, id, FALSE, Null, 0, 0)
        /\ UNCHANGED <<backend, conversations, messages, activeConversations,
                       now, calls, tasks, log, reuse, win, memo>>

\* todoRepo.createTodo({ title, due_date }) called directly.
CreateTodoCall(title, dueDate) ==
    LET created == CreateTodo(todos, sqlite_sequence.todos,
                              [title |-> title, description |-> Null,
                               due_date |-> dueDate], now)
    IN  /\ sqlite_sequence.todos < MaxTodos
        /\ todos' = created.rows
        /\ sqlite_sequence' =
              [sqlite_sequence EXCEPT !.todos = created.lastInsertRowid]
        /\ ret' = Returned("createTodo", created.lastInsertRowid,
                           0, FALSE, dueDate, 0, 0)
        /\ UNCHANGED <<backend, conversations, messages, activeConversations,
                       now, calls, tasks, log, reuse, win, memo, memories>>

\* todoRepo.updateTodoStatus(id, completed) called directly.
UpdateTodoStatusCall(id, completed) ==
    LET updated == UpdateTodoStatus(todos, id, completed)
    IN  /\ todos' = updated.rows
        /\ ret' = Returned("updateTodoStatus", updated.changes > 0,
                           id, completed, Null, 0, 0)
        /\ UNCHANGED <<backend, conversations, messages, activeConversations,
                       now, calls, tasks, log, reuse, win, memo,
                       memories, sqlite_sequence>>

\* todoRepo.deleteTodo(id) called directly.
DeleteTodoCall(id) ==
    LET deleted == DeleteTodo(todos, id)
    IN  /\ todos' = deleted.rows
        /\ ret' = Returned("deleteTodo", deleted.changes > 0,
                           id, FALSE, Null, 0, 0)
        /\ UNCHANGED <<backend, conversations, messages, activeConversations,
                       now, calls, tasks, log, reuse, win, memo,
                       memories, sqlite_sequence>>

\* getOverdueTodos: the incomplete todos due before today = new Date().
GetOverdueTodos ==
    LET today == now
    IN  /\ \E found \in SearchTodos(todos, [completed |-> Some(FALSE),
                                            dueBefore |-> Some(today),
                                            dueAfter |-> Null]) :
              ret' = Returned("getOverdueTodos", found, 0, FALSE, Null, 0, 0)
        /\ UNCHANGED <<backend, conversations, messages, activeConversations,
                       now, calls, tasks, log, reuse, win, memo,
                       todos, memories, sqlite_sequence>>

\* getUpcomingTodos(days) without dueAfter.
GetUpcomingTodosNoLowerBound(days) ==
    LET futureDate == now + days
    IN  /\ \E found \in SearchTodos(todos, [completed |-> Some(FALSE),
                                            dueBefore |-> Some(futureDate),
                                            dueAfter |-> Null]) :
              ret' = Returned("getUpcomingTodos", found, 0, FALSE, Null, days, 0)
        /\ UNCHANGED <<backend, conversations, messages, activeConversations,
                       now, calls, tasks, log, reuse, win, memo,
                       todos, memories, sqlite_sequence>>

\* getUpcomingTodos(days): the incomplete todos due after today and before
\* futureDate, which setDate puts days days after today.
GetUpcomingTodos(days) ==
    LET today == now
        futureDate == now + days
    IN  /\ \E found \in SearchTodos(todos, [completed |-> Some(FALSE),
                                            dueBefore |-> Some(futureDate),
                                            dueAfter |-> Some(today)]) :
              ret' = Returned("getUpcomingTodos", found, 0, FALSE, Null, days, 0)
        /\ UNCHANGED <<backend, conversations, messages, activeConversations,
                       now, calls, tasks, log, reuse, win, memo,
                       todos, memories, sqlite_sequence>>

\* memoryRepo.createMemory called directly.
CreateMemoryCall(content) ==
    LET recorded == CreateMemory(memories, sqlite_sequence.memories,
                                 [content |-> content], now)
    IN  /\ sqlite_sequence.memories < MaxMemories
        /\ memories' = recorded.rows
        /\ sqlite_sequence' =
              [sqlite_sequence EXCEPT !.memories = recorded.lastInsertRowid]
        /\ ret' = Returned("createMemory", recorded.lastInsertRowid,
                           0, FALSE, Null, 0, 0)
        /\ UNCHANGED <<backend, conversations, messages, activeConversations,
                       now, calls, tasks, log, reuse, win, memo, todos>>

\* memoryRepo.getMemoriesAroundId(id, range) called directly.
GetMemoriesAroundIdCall(id, range) ==
    /\ \E around \in GetMemoriesAroundId(memories, id, range) :
          ret' = Returned("getMemoriesAroundId", around, id, FALSE, Null, 0, range)
    /\ UNCHANGED <<backend, conversations, messages, activeConversations,
                   now, calls, tasks, log, reuse, win, memo,
                   todos, memories, sqlite_sequence>>

\* ================================================================ system
Next ==
    \/ Tick
    \/ \E u \in Users, t \in Titles, d \in Metadatas : StartConversation(u, t, d)
    \/ \E u \in Users, c \in Contents : AddUserMessage(u, c)
    \/ \E u \in Users, c \in Contents : AddAssistantMessage(u, c)
    \/ \E c \in 0..MaxConvs, r \in Roles, t \in Contents : CreateMessage(c, r, t)
    \/ \E s \in Slots : FinishStartConversation(s)
    \/ \E s \in Slots : ResumeAddMessage(s)
    \/ \E s \in Slots : TouchConversation(s)
    \/ \E s \in Slots : TouchFails(s)
    \/ \E s \in Slots : FinishAddMessage(s)
    \/ \E u \in Users : GetCurrentConversation(u)
    \/ \E m \in 1..MaxMsgs : ProcessMessageEmbedding(m)
    \/ \E m \in 1..MaxMsgs : EmbeddingFails(m)
    \/ \E m \in 1..MaxMsgs, v \in Vectors : SaveEmbeddingCall(m, v)
    \/ \E q \in Contents : GetConversationByReference(q)
    \/ \E q \in Contents, w \in Windows : RememberConversationWithContext(q, w)
    \/ \E s \in Slots : LoadConversation(s)
    \/ \E s \in Slots : LoadMessages(s)
    \/ GetAllConversationHistory
    \/ \E s \in Slots : LoadHistory(s)
    \/ \E a, b \in VectorSpace : CosineSimilarityCall(a, b)
    \/ \E t \in Texts : GenerateEmbeddingCall(t)
    \/ \E s \in Slots : ReferenceFails(s)
    \/ \E q \in Contents : SearchReference(q)
    \/ GetAllConversationsCall
    \/ \E u \in Users, op \in {"startConversation", "addMessage"} :
          CreateConversationFails(u, op)
    \/ \E s \in Slots : InsertFails(s)
    \/ TickDay
    \/ \E t \in TodoTitles, d \in DueDates : CreateTodoCall(t, d)
    \/ \E t \in TodoTitles, d \in DueDates : CreateTodoWithMemory(t, d)
    \/ \E i \in RowIds : CompleteTodoWithMemory(i)
    \/ \E i \in RowIds : UncompleteTodoWithMemory(i)
    \/ \E i \in RowIds : DeleteTodoWithMemory(i)
    \/ \E i \in RowIds, c \in BOOLEAN : UpdateTodoStatusCall(i, c)
    \/ \E i \in RowIds : DeleteTodoCall(i)
    \/ GetOverdueTodos
    \/ \E d \in Days : GetUpcomingTodos(d)
    \/ \E c \in TodoTitles : CreateMemoryCall(c)
    \/ \E i \in RowIds, r \in Ranges : GetMemoriesAroundIdCall(i, r)

Spec == Init /\ [][Next]_vars

\* The full system has more states than can be enumerated, so each property
\* is checked on the operations that read or write what it speaks of.

\* No controller call is in flight: the caller awaits every call.
Quiet == \A s \in Slots : Idle(s)

\* Session tracking: every user starts conversations and adds messages, two
\* calls at a time.  The embedding step writes only the embedding column and
\* is left out.
NextSession ==
    \/ Tick
    \/ \E u \in Users : StartConversation(u, Null, Null)
    \/ \E u \in Users, c \in Contents : AddUserMessage(u, c)
    \/ \E u \in Users, c \in Contents : AddAssistantMessage(u, c)
    \/ \E s \in Slots : FinishStartConversation(s)
    \/ \E s \in Slots : ResumeAddMessage(s)
    \/ \E s \in Slots : TouchConversation(s)
    \/ \E s \in Slots : FinishAddMessage(s)

SpecSession == Init /\ [][NextSession]_vars

\* The slicing of rememberConversationWithContext alone, on the list of the
\* positions 0 .. n-1 matched at position i with window size w.
Positions(n) == [k \in 1..n |-> k - 1]

SliceContext(n, i, w) ==
    /\ win' = [n |-> n, i |-> i, w |-> w,
               out |-> Some(ContextWindow(Positions(n), i, w))]
    /\ UNCHANGED <<backend, conversations, messages, activeConversations,
                   now, calls, tasks, log, ret, reuse, memo,
                   todos, memories, sqlite_sequence>>

NextWindow ==
    \E n \in 1..MaxListLen, w \in (0 - 1)..MaxListLen :
        \E i \in 0..(n - 1) : SliceContext(n, i, w)

SpecWindow == Init /\ [][NextWindow]_vars

\* Recall: one user whose caller awaits every call writes messages, the
\* embedding steps run in the background, and past messages are recalled
\* with their context.
OneUser == {"u1"}

NextRemember ==
    \/ Tick
    \/ Quiet /\ \E u \in OneUser : StartConversation(u, Null, Null)
    \/ Quiet /\ \E u \in OneUser, c \in Contents : AddUserMessage(u, c)
    \/ \E s \in Slots : FinishStartConversation(s)
    \/ \E s \in Slots : ResumeAddMessage(s)
    \/ \E s \in Slots : TouchConversation(s)
    \/ \E s \in Slots : FinishAddMessage(s)
    \/ \E m \in 1..MaxMsgs : ProcessMessageEmbedding(m)
    \/ \E m \in 1..MaxMsgs : EmbeddingFails(m)
    \/ Quiet /\ \E q \in Contents, w \in Windows :
                    RememberConversationWithContext(q, w)
    \/ \E s \in Slots : LoadConversation(s)
    \/ \E s \in Slots : LoadMessages(s)

SpecRemember == Init /\ [][NextRemember]_vars

\* Ingestion: one user adds messages, two calls at a time, and the embedding
\* steps run in the background.
NextIngest ==
    \/ Tick
    \/ \E u \in OneUser : StartConversation(u, Null, Null)
    \/ \E u \in OneUser, c \in Contents : AddUserMessage(u, c)
    \/ \E s \in Slots : FinishStartConversation(s)
    \/ \E s \in Slots : ResumeAddMessage(s)
    \/ \E s \in Slots : TouchConversation(s)
    \/ \E s \in Slots : FinishAddMessage(s)
    \/ \E m \in 1..MaxMsgs : ProcessMessageEmbedding(m)
    \/ \E m \in 1..MaxMsgs : EmbeddingFails(m)

SpecIngest == Init /\ [][NextIngest]_vars

\* The event loop runs every continuation that is ready: a call suspended at
\* an await is resumed, and a launched embedding step goes on to
\* saveEmbedding unless it rejects.  New calls and rejections are not forced.
Resumes ==
    \E s \in Slots :
        \/ FinishStartConversation(s)
        \/ ResumeAddMessage(s)
        \/ TouchConversation(s)
        \/ FinishAddMessage(s)

EmbeddingSettles ==
    \E m \in 1..MaxMsgs : ProcessMessageEmbedding(m) \/ EmbeddingFails(m)

FairIngest ==
    /\ SpecIngest
    /\ WF_vars(Resumes)
    /\ WF_vars(EmbeddingSettles)

\* Overwriting: one user whose caller awaits every call adds messages, and
\* embeddings are saved both by the background steps and by direct calls of
\* saveEmbedding.
NextOverwrite ==
    \/ Tick
    \/ Quiet /\ \E u \in OneUser, c \in Contents : AddUserMessage(u, c)
    \/ \E s \in Slots : FinishStartConversation(s)
    \/ \E s \in Slots : ResumeAddMessage(s)
    \/ \E s \in Slots : TouchConversation(s)
    \/ \E s \in Slots : FinishAddMessage(s)
    \/ \E m \in 1..MaxMsgs : ProcessMessageEmbedding(m)
    \/ \E m \in 1..MaxMsgs : EmbeddingFails(m)
    \/ \E m \in 1..MaxMsgs, v \in Vectors : SaveEmbeddingCall(m, v)

SpecOverwrite == Init /\ [][NextOverwrite]_vars

\* The message store called directly: conversations are started, and
\* createMessage is called, two calls at a time, for stored conversations and
\* for an id that names none; the UPDATE of a createMessage can be rejected.
NextStore ==
    \/ Tick
    \/ \E u \in OneUser : StartConversation(u, Null, Null)
    \/ \E c \in 0..MaxConvs, t \in Contents : CreateMessage(c, "user", t)
    \/ \E s \in Slots : FinishStartConversation(s)
    \/ \E s \in Slots : TouchConversation(s)
    \/ \E s \in Slots : TouchFails(s)

SpecStore == Init /\ [][NextStore]_vars

\* Reading the current conversation: two users whose callers await every
\* call start conversations and add messages, and getCurrentConversation is
\* called at any time.
NextCurrent ==
    \/ Tick
    \/ Quiet /\ \E u \in Users : StartConversation(u, Null, Null)
    \/ Quiet /\ \E u \in Users, c \in Contents : AddUserMessage(u, c)
    \/ \E s \in Slots : FinishStartConversation(s)
    \/ \E s \in Slots : ResumeAddMessage(s)
    \/ \E s \in Slots : TouchConversation(s)
    \/ \E s \in Slots : FinishAddMessage(s)
    \/ \E u \in Users : GetCurrentConversation(u)

SpecCurrent == Init /\ [][NextCurrent]_vars

\* Finding by reference: one user whose caller awaits every write adds
\* messages through the controller and through createMessage, the embedding
\* steps run in the background, and getConversationByReference and
\* rememberConversationWithContext are called between the writes.
NextReference ==
    \/ Tick
    \/ Quiet /\ \E u \in OneUser : StartConversation(u, Null, Null)
    \/ Quiet /\ \E u \in OneUser, c \in Contents : AddUserMessage(u, c)
    \/ Quiet /\ \E c \in 0..MaxConvs, t \in Contents : CreateMessage(c, "user", t)
    \/ \E s \in Slots : FinishStartConversation(s)
    \/ \E s \in Slots : ResumeAddMessage(s)
    \/ \E s \in Slots : TouchConversation(s)
    \/ \E s \in Slots : FinishAddMessage(s)
    \/ \E m \in 1..MaxMsgs : ProcessMessageEmbedding(m)
    \/ \E m \in 1..MaxMsgs : EmbeddingFails(m)
    \/ Quiet /\ \E q \in Contents : GetConversationByReference(q)
    \/ Quiet /\ \E q \in Contents : RememberConversationWithContext(q, MaxWindow)
    \/ \E s \in Slots : LoadConversation(s)
    \/ \E s \in Slots : LoadMessages(s)

SpecReference == Init /\ [][NextReference]_vars

\* Starting conversations: two users start conversations with and without
\* a title and metadata of their own, two calls at a time.
NextStart ==
    \/ Tick
    \/ \E u \in Users, t \in Titles, d \in Metadatas : StartConversation(u, t, d)
    \/ \E s \in Slots : FinishStartConversation(s)

SpecStart == Init /\ [][NextStart]_vars

\* The whole history: two users whose callers await every call start
\* conversations and add messages, and getAllConversationHistory is called
\* between the writes.
NextHistory ==
    \/ Tick
    \/ Quiet /\ \E u \in Users : StartConversation(u, Null, Null)
    \/ Quiet /\ \E u \in Users, c \in Contents : AddUserMessage(u, c)
    \/ \E s \in Slots : FinishStartConversation(s)
    \/ \E s \in Slots : ResumeAddMessage(s)
    \/ \E s \in Slots : TouchConversation(s)
    \/ \E s \in Slots : FinishAddMessage(s)
    \/ Quiet /\ GetAllConversationHistory
    \/ \E s \in Slots : LoadHistory(s)

SpecHistory == Init /\ [][NextHistory]_vars

\* Failures: one user adds messages, two calls at a time; the store can
\* reject the UPDATE of a createMessage, and an embedding step can reject.
NextFailures ==
    \/ Tick
    \/ \E u \in OneUser, c \in Contents : AddUserMessage(u, c)
    \/ \E s \in Slots : FinishStartConversation(s)
    \/ \E s \in Slots : ResumeAddMessage(s)
    \/ \E s \in Slots : TouchConversation(s)
    \/ \E s \in Slots : TouchFails(s)
    \/ \E s \in Slots : FinishAddMessage(s)
    \/ \E m \in 1..MaxMsgs : ProcessMessageEmbedding(m)
    \/ \E m \in 1..MaxMsgs : EmbeddingFails(m)

SpecFailures == Init /\ [][NextFailures]_vars

\* Ranking: one user whose caller awaits every call adds messages, and
\* embeddings of any kind are saved for them, all-zero ones and ones of
\* another length included.
NextRanking ==
    \/ Tick
    \/ Quiet /\ \E u \in OneUser, c \in Contents : AddUserMessage(u, c)
    \/ \E s \in Slots : FinishStartConversation(s)
    \/ \E s \in Slots : ResumeAddMessage(s)
    \/ \E s \in Slots : TouchConversation(s)
    \/ \E s \in Slots : FinishAddMessage(s)
    \/ \E m \in 1..MaxMsgs, v \in Embeddings : SaveEmbeddingCall(m, v)

SpecRanking == Init /\ [][NextRanking]_vars

\* The similarity macro alone, on every pair of vectors.
NextCosine == \E a, b \in VectorSpace : CosineSimilarityCall(a, b)

SpecCosine == Init /\ [][NextCosine]_vars

\* Embedding generation: one user whose caller awaits every call adds
\* messages, the embedding steps run in the background, and
\* generateEmbedding is called for any text at any time.
NextEmbedding ==
    \/ Quiet /\ \E u \in OneUser, c \in Contents : AddUserMessage(u, c)
    \/ \E s \in Slots : FinishStartConversation(s)
    \/ \E s \in Slots : ResumeAddMessage(s)
    \/ \E s \in Slots : TouchConversation(s)
    \/ \E s \in Slots : FinishAddMessage(s)
    \/ \E m \in 1..MaxMsgs : ProcessMessageEmbedding(m)
    \/ \E t \in Texts : GenerateEmbeddingCall(t)

SpecEmbedding == Init /\ [][NextEmbedding]_vars

\* Validation: one user adds messages, two calls at a time, with the empty
\* string among the contents.
NextValidation ==
    \/ Tick
    \/ \E u \in OneUser, c \in Texts : AddUserMessage(u, c)
    \/ \E u \in OneUser, c \in Texts : AddAssistantMessage(u, c)
    \/ \E s \in Slots : FinishStartConversation(s)
    \/ \E s \in Slots : ResumeAddMessage(s)
    \/ \E s \in Slots : TouchConversation(s)
    \/ \E s \in Slots : FinishAddMessage(s)

SpecValidation == Init /\ [][NextValidation]_vars

\* The tool interface: one user whose caller awaits every call adds
\* messages, the embedding steps run, and the search_reference tool is
\* called between the writes; the store can reject the tool's reads.
NextTool ==
    \/ Quiet /\ \E u \in OneUser, c \in Contents : AddUserMessage(u, c)
    \/ \E s \in Slots : FinishStartConversation(s)
    \/ \E s \in Slots : ResumeAddMessage(s)
    \/ \E s \in Slots : TouchConversation(s)
    \/ \E s \in Slots : FinishAddMessage(s)
    \/ \E m \in 1..MaxMsgs : ProcessMessageEmbedding(m)
    \/ Quiet /\ \E q \in Contents : SearchReference(q)
    \/ \E s \in Slots : LoadConversation(s)
    \/ \E s \in Slots : LoadMessages(s)
    \/ \E s \in Slots : ReferenceFails(s)

SpecTool == Init /\ [][NextTool]_vars

\* Listing: two users add messages, two calls at a time, and the
\* conversations are listed whenever no call is in flight.
NextListing ==
    \/ Tick
    \/ \E u \in Users, c \in Contents : AddUserMessage(u, c)
    \/ \E s \in Slots : FinishStartConversation(s)
    \/ \E s \in Slots : ResumeAddMessage(s)
    \/ \E s \in Slots : TouchConversation(s)
    \/ \E s \in Slots : FinishAddMessage(s)
    \/ Quiet /\ GetAllConversationsCall

SpecListing == Init /\ [][NextListing]_vars

\* Store failures under the controller: every store write of
\* startConversation and addMessage may be rejected.
NextPropagation ==
    \/ Tick
    \/ \E u \in OneUser : StartConversation(u, Null, Null)
    \/ \E u \in OneUser, c \in Contents : AddUserMessage(u, c)
    \/ \E u \in OneUser, op \in {"startConversation", "addMessage"} :
          CreateConversationFails(u, op)
    \/ \E s \in Slots : FinishStartConversation(s)
    \/ \E s \in Slots : ResumeAddMessage(s)
    \/ \E s \in Slots : InsertFails(s)
    \/ \E s \in Slots : TouchConversation(s)
    \/ \E s \in Slots : TouchFails(s)
    \/ \E s \in Slots : FinishAddMessage(s)

SpecPropagation == Init /\ [][NextPropagation]_vars

\* The todo service: todos are created, completed, reopened and deleted
\* with a memory of each operation.
NextService ==
    \/ TickDay
    \/ \E t \in TodoTitles, d \in DueDates : CreateTodoWithMemory(t, d)
    \/ \E i \in RowIds : CompleteTodoWithMemory(i)
    \/ \E i \in RowIds : UncompleteTodoWithMemory(i)
    \/ \E i \in RowIds : DeleteTodoWithMemory(i)

SpecService == Init /\ [][NextService]_vars

\* The todo repository and the two due-date searches of the service.
NextTodo ==
    \/ TickDay
    \/ \E t \in TodoTitles, d \in DueDates : CreateTodoCall(t, d)
    \/ \E i \in RowIds, c \in BOOLEAN : UpdateTodoStatusCall(i, c)
    \/ \E i \in RowIds : DeleteTodoCall(i)
    \/ GetOverdueTodos
    \/ \E d \in Days : GetUpcomingTodos(d)

SpecTodo == Init /\ [][NextTodo]_vars

\* Memories: entries are created over days and read around an id.
NextMemory ==
    \/ TickDay
    \/ \E c \in TodoTitles : CreateMemoryCall(c)
    \/ \E i \in RowIds, r \in Ranges : GetMemoriesAroundIdCall(i, r)

SpecMemory == Init /\ [][NextMemory]_vars

\* ================================================================ claims
\* C1: an addMessage call (either role) of a user with no active conversation
\* creates exactly one conversation and makes it the user's active one; an
\* addMessage of the same user issued after an addMessage has returned, with
\* no startConversation step in between, creates no conversation and stores
\* its message under the conversation of the earlier call.
C1_LazyConversationOnceThenReused ==
    (ret.ok /\ ret.call.op = "addMessage") =>
        LET call == ret.call
        IN  /\ Row(call.msg).conversation_id = call.conv
            /\ ~call.hadActive =>
                  /\ call.created = 1
                  /\ call.activated = call.conv
            /\ call.expect.conv # 0 =>
                  /\ call.hadActive
                  /\ call.created = 0
                  /\ call.conv = call.expect.conv

\* A second addMessage returns after a first one that created the
\* conversation lazily, and no startConversation came between them.
C1_Witness ==
    /\ ret.ok
    /\ ret.call.op = "addMessage"
    /\ ret.call.role = "assistant"
    /\ ret.call.expect.conv # 0
    /\ ret.call.expect.lazy
    /\ Len(messages) = 2
    /\ messages[1].conversation_id = messages[2].conversation_id

\* C3: for a match at index i of a list of n messages and a window size
\* w >= 0, beforeContext is the messages at indices max(0, i-w) .. i-1 and
\* afterContext the messages at indices i+1 .. min(n-1, i+w); their lengths
\* are min(w, i) and min(w, n-1-i).
C3_WindowArithmetic ==
    (~IsNull(win.out) /\ win.w >= 0) =>
        LET n == win.n
            i == win.i
            w == win.w
            out == win.out[1]
            first == Max(0, i - w)
            last == Min(n - 1, i + w)
        IN  /\ out.beforeContext = [k \in 1..(i - first) |-> first + k - 1]
            /\ out.afterContext = [k \in 1..(last - i) |-> i + k]
            /\ Len(out.beforeContext) = Min(w, i)
            /\ Len(out.afterContext) = Min(w, n - 1 - i)
            /\ out.matchedMessage = i

\* Ten messages, the match at index 4, window size 2: indices 2,3 and 5,6.
C3_Witness ==
    /\ win.n = 10
    /\ win.i = 4
    /\ win.w = 2
    /\ win.out[1].beforeContext = <<2, 3>>
    /\ win.out[1].afterContext = <<5, 6>>

\* What rememberConversationWithContext returned, when it returned a result.
Recalled == ret.ok /\ ret.call.op = "remember" /\ ~IsNull(ret.value)

\* beforeContext, matchedMessage, afterContext of a result, in this order.
Run(r) == r.beforeContext \o <<r.matchedMessage>> \o r.afterContext

\* The run is a contiguous, order-preserving part of the result's message
\* list, all of it in the result's conversation.
Contiguous(r) ==
    /\ \E k \in 0..(Len(r.messages) - Len(Run(r))) :
          SubSeq(r.messages, k + 1, k + Len(Run(r))) = Run(r)
    /\ \A k \in 1..Len(Run(r)) :
          Run(r)[k].conversation_id = r.conversation.conversation_id

\* C2 as stated: whenever rememberConversationWithContext(query, windowSize)
\* returns a result, beforeContext and afterContext have at most windowSize
\* messages each and beforeContext, matchedMessage, afterContext form a
\* contiguous, order-preserving run of the matched conversation's list.
C2_WindowInvariant ==
    Recalled =>
        /\ Len(ret.value[1].beforeContext) <= ret.call.window
        /\ Len(ret.value[1].afterContext) <= ret.call.window
        /\ Contiguous(ret.value[1])

\* C2 amended: the run is always contiguous and within the matched
\* conversation; the two length bounds hold for every windowSize >= 0.
C2_WindowInvariantNonNegative ==
    Recalled =>
        /\ Contiguous(ret.value[1])
        /\ ret.call.window >= 0 =>
              /\ Len(ret.value[1].beforeContext) <= ret.call.window
              /\ Len(ret.value[1].afterContext) <= ret.call.window

\* A result with one message of context before the match.
C2_Witness ==
    /\ Recalled
    /\ ret.call.window = 1
    /\ Len(ret.value[1].beforeContext) = 1
    /\ Len(ret.value[1].messages) = 2

\* addMessage has just returned a message id.
JustAdded == ret.ok /\ ret.call.op = "addMessage"

\* The message with this id is among the rows of an answer.
Listed(id, rows) == \E i \in 1..Len(rows) : rows[i].message_id = id

\* The ids of the stored messages with and without an embedding.
Stored == {messages[i].message_id : i \in 1..Len(messages)}

Embedded == {id \in Stored : ~IsNull(Row(id).embedding)}

Unembedded == Stored \ Embedded

\* Every answer searchSimilarMessages(v, l) can give in this state.
SimilarAnswers(v, l) == SearchSimilarMessages(backend, Db, v, l)

\* C4 as stated: right after addMessage returns the embedding step has not
\* completed, the message is listed by getMessagesByConversation and found
\* by keyword search while its embedding is still absent, and no message
\* without an embedding is returned by similarity search.
C4_ReturnsBeforeEmbedding ==
    /\ JustAdded =>
          LET id == ret.value[1]
              call == ret.call
          IN  /\ Pending(id)
              /\ IsNull(Row(id).embedding)
              /\ \A rows \in GetMessagesByConversation(backend, Db, call.conv) :
                    Listed(id, rows)
              /\ \A k \in Keywords \cup {call.content} :
                    Includes(call.content, k) =>
                        \A rows \in SearchMessages(backend, Db, k, MaxMsgs) :
                            Listed(id, rows)
    /\ \A id \in Unembedded, v \in Vectors, l \in 1..MaxLimit :
          \A rows \in SimilarAnswers(v, l) : ~Listed(id, rows)

\* The embedding steps that rejected.
Failed == {m \in DOMAIN tasks : tasks[m].state = "failed"}

\* C5: a failing embedding step never fails an addMessage call: every call
\* returns normally, each failure is logged once, and the message of a
\* failed step stays stored, unchanged and without an embedding.
C5_EmbeddingFailureSwallowed ==
    /\ ret.ok
    /\ JustAdded => ret.value = Some(ret.call.msg) /\ ret.call.msg \in Stored
    /\ log = Cardinality(Failed)
    /\ \A m \in Failed :
          /\ m \in Stored
          /\ Row(m).content = tasks[m].content
          /\ IsNull(Row(m).embedding)

\* An addMessage returns its id after the embedding step of an earlier
\* message has failed and been logged.
C5_Witness ==
    /\ JustAdded
    /\ ret.value = Some(2)
    /\ Failed = {1}
    /\ log = 1
    /\ IsNull(Row(1).embedding)

\* The embedding step of message m has ended in failure.
Rejected(m) == m \in DOMAIN tasks /\ tasks[m].state = "failed"

\* Message m has its embedding and a similarity search that is not cut
\* short by its limit returns it.
Eligible(m) ==
    /\ m \in Embedded
    /\ \A v \in Vectors : \A rows \in SimilarAnswers(v, MaxMsgs) : Listed(m, rows)

\* C6 as stated: under fair scheduling the embedding step of every message
\* added by addMessage ends, and unless it fails the message then has its
\* embedding and is eligible for similarity search.
C6_EventuallyEmbedded ==
    \A m \in 1..MaxMsgs : Pending(m) ~> (Rejected(m) \/ Eligible(m))

\* C7 as stated: no answer of searchSimilarMessages, for any query vector
\* and limit, holds a message without an embedding.
C7_SimilarityExcludesUnembedded ==
    \A v \in Vectors, l \in 1..MaxLimit :
        \A rows \in SimilarAnswers(v, l) :
            \A i \in 1..Len(rows) : ~IsNull(rows[i].embedding)

\* C8 as stated: searchSimilarMessages(v, l) answers with the l
\* highest-scoring embedded messages (all of them when there are fewer),
\* by descending score, equal scores by more recent timestamp first.
C8_TopLimitSorted ==
    \A v \in Vectors, l \in 1..MaxLimit :
        \A rows \in SimilarAnswers(v, l) :
            /\ Len(rows) = Min(l, Cardinality(Embedded))
            /\ \A i \in 1..Len(rows) :
                  /\ rows[i].message_id \in Embedded
                  /\ rows[i].similarity =
                        CosineSimilarity(Row(rows[i].message_id).embedding[1], v)
            /\ \A i, j \in 1..Len(rows) :
                  i < j =>
                      /\ rows[i].message_id # rows[j].message_id
                      /\ ScoreGE(rows[i].similarity, rows[j].similarity)
                      /\ ScoreEQ(rows[i].similarity, rows[j].similarity) =>
                            rows[i].timestamp >= rows[j].timestamp
            /\ \A id \in Embedded :
                  ~Listed(id, rows) =>
                      \A i \in 1..Len(rows) :
                          ScoreGE(rows[i].similarity,
                                  CosineSimilarity(Row(id).embedding[1], v))

\* The ids of the messages of a conversation in the order of their insertion.
InsertedInto(c) ==
    LET Mine(r) == r.conversation_id = c
        rows == SelectSeq(messages, Mine)
    IN  [i \in 1..Len(rows) |-> rows[i].message_id]

\* C10 as stated: getMessagesByConversation(C) lists the messages of C in
\* the order of their insertion, also when timestamps are equal.
C10_InsertionOrderListed ==
    \A c \in 1..Len(conversations) :
        \A rows \in GetMessagesByConversation(backend, Db, c) :
            [i \in 1..Len(rows) |-> rows[i].message_id] = InsertedInto(c)

\* saveEmbedding has just returned.
JustSaved == ret.ok /\ ret.call.op = "saveEmbedding"

\* C9 as stated: right after saveEmbedding(id, v) returns, whatever vector
\* was saved for id before, the message holds v and every similarity search
\* scores it with v; and saving the same vector a second time changes
\* nothing.
C9_SaveEmbeddingOverwrites ==
    /\ JustSaved =>
          LET m == ret.call.msg
              v == ret.call.vector[1]
          IN  /\ Row(m).embedding = Some(v)
              /\ \A q \in Vectors :
                    \A rows \in SimilarAnswers(q, MaxMsgs) :
                        /\ Listed(m, rows)
                        /\ \A i \in 1..Len(rows) :
                              rows[i].message_id = m =>
                                  rows[i].similarity = CosineSimilarity(v, q)
    /\ \A m \in Stored, v \in Vectors :
          LET once == SaveEmbedding(backend, Db, m, v).db
          IN  SaveEmbedding(backend, once, m, v).db = once

\* createMessage has just returned or rejected.
CreateMessageEnded == ret.call.op = "createMessage"

\* C11 as stated: createMessage with a conversation id that names no stored
\* conversation rejects, and no message that references it is ever stored.
C11_ReferenceEnforced ==
    /\ (CreateMessageEnded /\ ret.call.conv = NoSuchConversation) => ~ret.ok
    /\ \A i \in 1..Len(messages) :
          messages[i].conversation_id # NoSuchConversation

\* The createMessage in slot s completes in this step: its UPDATE was
\* accepted.
CreateMessageSucceeds(s) ==
    /\ calls[s].pc = "cm_touch"
    /\ calls'[s].pc # "cm_touch"
    /\ calls'[s].pc = "am_launch" \/ ret'.ok

\* C12 as stated: the step that completes a createMessage into a stored
\* conversation C leaves C's updated_at equal to the timestamp of the
\* inserted message and every other conversation's updated_at as it was.
C12_UpdatedAtIsInsertionTime ==
    [][\A s \in Slots :
          (CreateMessageSucceeds(s) /\ calls[s].conv \in 1..Len(conversations)) =>
              /\ Len(conversations') = Len(conversations)
              /\ \A c \in 1..Len(conversations) :
                    conversations'[c].updated_at =
                        IF c = calls[s].conv
                        THEN Row(calls[s].msg).timestamp
                        ELSE conversations[c].updated_at]_vars

\* C13 as stated: in every reachable state, also between the two writes of
\* a createMessage and after its UPDATE was rejected, every stored message
\* of a stored conversation has a timestamp that is not later than the
\* conversation's updated_at.
C13_MessageAtomicWithBump ==
    \A i \in 1..Len(messages) :
        LET c == messages[i].conversation_id
        IN  c \in 1..Len(conversations) =>
                conversations[c].updated_at >= messages[i].timestamp

\* The addMessage in slot s executes its updated_at write in this step.
UpdatedAtWrite(s) ==
    /\ calls[s].op = "addMessage"
    /\ calls[s].pc = "cm_touch"
    /\ calls'[s].pc = "am_launch"

\* C14 as stated: with addMessage calls for one conversation in flight
\* together, every updated_at write leaves the conversation's updated_at at
\* the timestamp it wrote, whatever was there before, and no other step
\* changes it: the final value is that of the write executed last.
C14_LastWriteWins ==
    [][/\ \A s \in Slots :
            UpdatedAtWrite(s) =>
                conversations'[calls[s].conv].updated_at = calls[s].ts
       /\ \A c \in 1..Len(conversations) :
            conversations'[c].updated_at # conversations[c].updated_at =>
                \E s \in Slots : UpdatedAtWrite(s) /\ calls[s].conv = c]_vars

\* getCurrentConversation has just returned or rejected.
CurrentEnded == ret.call.op = "getCurrentConversation"

\* The rows are all the stored messages of conversation c, each once, by
\* ascending timestamp.
FullOrderedList(rows, c) ==
    /\ {rows[i].message_id : i \in 1..Len(rows)} =
            {id \in Stored : Row(id).conversation_id = c}
    /\ \A i, j \in 1..Len(rows) :
          i < j => /\ rows[i].message_id # rows[j].message_id
                   /\ rows[i].timestamp <= rows[j].timestamp
    /\ \A i \in 1..Len(rows) :
          /\ rows[i].content = Row(rows[i].message_id).content
          /\ rows[i].role = Row(rows[i].message_id).role

\* C15 as stated: getCurrentConversation(user) never rejects; for a user
\* with no active conversation it returns [] without a read of the message
\* store, and otherwise the full list of the messages of the user's active
\* conversation, by ascending timestamp.
C15_CurrentConversationListed ==
    CurrentEnded =>
        /\ ret.ok
        /\ IF ret.call.user \in DOMAIN activeConversations
           THEN FullOrderedList(ret.value[1],
                                activeConversations[ret.call.user])
           ELSE ret.value[1] = <<>> /\ ~ret.call.read

\* getConversationByReference has just returned or rejected, called
\* directly or by rememberConversationWithContext.
ReferenceEnded == ret.call.op \in {"getConversationByReference", "remember"}

\* No similarity search for this text can find a message.
NoMatch(q) == FindSimilarMessages(backend, Db, q, 1) = {<<>>}

\* The conversation of message row m is not found by getConversation.
OwnerNotFound(m) == GetConversation(backend, Db, m.conversation_id) = {Null}

\* C16: getConversationByReference and rememberConversationWithContext
\* never reject; when similarity search can find no message, or when the
\* conversation of the best match is not found, they return null.
C16_NoReferenceIsNull ==
    ReferenceEnded =>
        /\ ret.ok
        /\ NoMatch(ret.call.query) =>
              IsNull(ret.call.top) /\ IsNull(ret.value)
        /\ (~IsNull(ret.call.top) /\ OwnerNotFound(ret.call.top[1])) =>
              IsNull(ret.value)

\* rememberConversationWithContext returns null for a best match whose
\* conversation is not found, in a store that holds the message.
C16_Witness ==
    /\ ret.ok
    /\ ret.call.op = "remember"
    /\ ~IsNull(ret.call.top)
    /\ ret.call.top[1].message_id \in Stored
    /\ OwnerNotFound(ret.call.top[1])
    /\ IsNull(ret.value)

\* C17 as stated: a result of getConversationByReference holds the
\* conversation that owns the best match, the full list of that
\* conversation's messages by ascending timestamp, and the zero-based
\* position of the best match in that list; when the best match is not in
\* the reloaded list the index is absent, and
\* rememberConversationWithContext returns null exactly then.
C17_ReferenceResult ==
    (ReferenceEnded /\ ~IsNull(ret.call.loaded)) =>
        LET top == ret.call.top[1]
            msgs == ret.call.loaded[1]
            found == \E k \in 1..Len(msgs) : msgs[k].message_id = top.message_id
        IN  /\ ret.call.conversation[1].conversation_id = top.conversation_id
            /\ FullOrderedList(msgs, top.conversation_id)
            /\ IF ret.call.op = "remember"
               THEN IsNull(ret.value) <=> ~found
               ELSE /\ ret.value[1].conversation = ret.call.conversation[1]
                    /\ ret.value[1].messages = msgs
                    /\ IF found
                       THEN LET i == ret.value[1].matchedMessageIndex[1]
                            IN  /\ i \in 0..(Len(msgs) - 1)
                                /\ msgs[i + 1].message_id = top.message_id
                       ELSE IsNull(ret.value[1].matchedMessageIndex)

\* A stored conversation row without its updated_at.
Unstamped(row) == [row EXCEPT !.updated_at = 0]

\* The startConversation in slot s runs up to its await in this step.
StartBegins(s) == Idle(s) /\ calls'[s].op = "startConversation"

\* The startConversation in slot s sets the active conversation and returns
\* in this step.
StartReturns(s) ==
    /\ calls[s].op = "startConversation"
    /\ calls[s].pc = "sc_set"
    /\ calls'[s].pc # "sc_set"

\* An addMessage of a user with an active conversation starts in slot s.
FollowUpBegins(s) ==
    /\ Idle(s)
    /\ calls'[s].op = "addMessage"
    /\ calls'[s].hadActive

\* C18: startConversation(user) makes the conversation it created the
\* user's active one whatever was active before, and returns its id; no
\* step of it changes a stored message, a stored conversation or another
\* user's entry; every step of the system keeps the stored conversations
\* and messages as they are (but for updated_at), so the earlier
\* conversation stays in the store under its id; and an addMessage that
\* starts while the user has an active conversation stores its message
\* under that conversation and creates none.
C18_StartReplacesActive ==
    [][/\ \A s \in Slots :
            StartBegins(s) =>
                /\ messages' = messages
                /\ activeConversations' = activeConversations
                /\ Len(conversations') = Len(conversations) + 1
                /\ SubSeq(conversations', 1, Len(conversations)) = conversations
       /\ \A s \in Slots :
            StartReturns(s) =>
                /\ activeConversations'[calls[s].user] = calls[s].conv
                /\ ret'.value = Some(calls[s].conv)
                /\ ret'.call.created = 1
                /\ calls[s].user \in DOMAIN activeConversations =>
                      activeConversations[calls[s].user] # calls[s].conv
                /\ \A u \in DOMAIN activeConversations \ {calls[s].user} :
                      activeConversations'[u] = activeConversations[u]
                /\ messages' = messages
                /\ conversations' = conversations
       /\ \A i \in 1..Len(conversations) :
            /\ i <= Len(conversations')
            /\ Unstamped(conversations'[i]) = Unstamped(conversations[i])
       /\ SubSeq(messages', 1, Len(messages)) = messages
       /\ \A s \in Slots :
            FollowUpBegins(s) =>
                /\ conversations' = conversations
                /\ \A i \in (Len(messages) + 1)..Len(messages') :
                      messages'[i].conversation_id =
                          activeConversations[calls'[s].user]]_vars

\* startConversation returns for a user whose active conversation holds a
\* message: the new conversation is active and the message is where it was.
C18_Witness ==
    /\ ret.ok
    /\ ret.call.op = "startConversation"
    /\ ret.call.hadActive
    /\ ret.call.user = "u1"
    /\ ret.value = Some(2)
    /\ activeConversations["u1"] = 2
    /\ Len(messages) = 1
    /\ messages[1].conversation_id = 1
    /\ 1 \in DOMAIN tasks

\* The call in slot s, a startConversation or an addMessage that started
\* one, writes the user's entry of activeConversations in this step.
ActivationWrite(s) == calls[s].pc = "sc_set" /\ calls'[s].pc # "sc_set"

\* The metadata object of a stored conversation row.
StoredMetadata(row) ==
    IF backend = "fake" THEN row.metadata ELSE JsonParse(row.metadata)

\* C19: with startConversation calls of one user in flight together, each
\* activation write leaves the user with the one conversation it wrote,
\* whatever the order in which the conversations were created; no other
\* step changes or removes the user's entry; and no step removes a
\* conversation from the store.
C19_LastActivationWins ==
    [][/\ \A s \in Slots :
            ActivationWrite(s) =>
                activeConversations'[calls[s].user] = calls[s].conv
       /\ \A u \in Users :
            \/ /\ u \in DOMAIN activeConversations
               /\ u \in DOMAIN activeConversations'
               /\ activeConversations'[u] = activeConversations[u]
            \/ /\ u \notin DOMAIN activeConversations
               /\ u \notin DOMAIN activeConversations'
            \/ \E s \in Slots : ActivationWrite(s) /\ calls[s].user = u
       /\ \A i \in 1..Len(conversations) :
            /\ i <= Len(conversations')
            /\ conversations'[i].conversation_id =
                   conversations[i].conversation_id]_vars

\* Two startConversation calls of u1 overlapped and the one that created
\* its conversation first wrote its activation last: conversation 1 is the
\* active one and conversation 2 is still stored.
C19_Witness ==
    /\ Quiet
    /\ ret.ok
    /\ ret.call.op = "startConversation"
    /\ ret.call.user = "u1"
    /\ ret.call.hadActive = FALSE
    /\ ret.value = Some(1)
    /\ activeConversations = [u \in {"u1"} |-> 1]
    /\ Len(conversations) = 2
    /\ StoredMetadata(conversations[2]).userId = "u1"
    /\ messages = <<>>

\* startConversation has just returned a conversation id.
JustStarted == ret.ok /\ ret.call.op = "startConversation"

\* C20: the conversation that startConversation(user, title, metadata)
\* created has the given title, or the default title when none was given,
\* and its metadata has every key of the caller's metadata with the
\* caller's value, except that userId is the user argument and startedAt the
\* time of the call, also when the caller's metadata has these keys.
C20_TitleAndMetadata ==
    JustStarted =>
        LET call == ret.call
            row == conversations[ret.value[1]]
            given == DefaultArg(call.metadata, EmptyObject)
            stored == StoredMetadata(row)
        IN  /\ row.conversation_id = ret.value[1]
            /\ row.title = IF IsNull(call.title) THEN DefaultTitle
                           ELSE call.title[1]
            /\ DOMAIN stored = DOMAIN given \cup {"userId", "startedAt"}
            /\ stored["userId"] = call.user
            /\ stored["startedAt"] = call.ts
            /\ call.ts \in 0..MaxTime
            /\ \A k \in DOMAIN given \ {"userId", "startedAt"} :
                  stored[k] = given[k]

\* startConversation returns for a titled call whose metadata has a userId
\* and a startedAt of its own.
C20_Witness ==
    /\ JustStarted
    /\ ret.call.user = "u1"
    /\ ret.call.title = Some("demo")
    /\ ret.call.metadata = Some([userId |-> "mallory", startedAt |-> MaxTime + 1])
    /\ conversations[ret.value[1]].title = "demo"
    /\ StoredMetadata(conversations[ret.value[1]]).userId = "u1"


\* getAllConversationHistory has just returned or rejected.
HistoryEnded == ret.call.op = "getAllConversationHistory"

\* C21 as stated: getAllConversationHistory returns every stored
\* conversation once, and its messages map has exactly one key per returned
\* conversation id, whose value is the full list of that conversation's
\* messages by ascending timestamp (the empty list when it has none).
C21_HistoryComplete ==
    HistoryEnded =>
        /\ ret.ok
        /\ LET h == ret.value[1]
               ids == {h.conversations[i].conversation_id :
                          i \in 1..Len(h.conversations)}
           IN  /\ Len(h.conversations) = Len(conversations)
               /\ ids = {conversations[i].conversation_id :
                            i \in 1..Len(conversations)}
               /\ DOMAIN h.messages = ids
               /\ \A c \in ids : FullOrderedList(h.messages[c], c)


\* How far an addMessage call has come: before the implicit
\* startConversation returns, before createMessage is called, inside
\* createMessage, after it, and ended.
Progress(pc) ==
    CASE pc = "sc_set" -> 1
      [] pc = "cm_insert" -> 2
      [] pc = "cm_touch" -> 3
      [] pc = "am_launch" -> 4
      [] OTHER -> 5

\* One step of the system with no retry in it.
NoRetryStep ==
    /\ \A s \in Slots :
        calls[s].op = "addMessage" =>
            /\ Progress(calls'[s].pc) >= Progress(calls[s].pc)
            /\ (calls[s].pc \in {"cm_touch", "am_launch"}
                    /\ calls'[s].pc = calls[s].pc)
                  => calls'[s].msg = calls[s].msg
            /\ (calls[s].pc = "am_launch" /\ calls'[s].pc # "am_launch")
                  => /\ calls[s].msg \notin DOMAIN tasks
                     /\ calls[s].msg \in DOMAIN tasks'
                     /\ tasks'[calls[s].msg].state = "pending"
    /\ \A m \in DOMAIN tasks' :
        IF m \notin DOMAIN tasks
        THEN /\ tasks'[m].state = "pending"
             /\ ret'.ok /\ ret'.call.op = "addMessage"
             /\ ret'.value = Some(m)
        ELSE \/ tasks'[m] = tasks[m]
             \/ /\ tasks[m].state = "pending"
                /\ tasks'[m].state \in {"saved", "failed"}
    /\ DOMAIN tasks \subseteq DOMAIN tasks'
    /\ (ret'.call.op = "addMessage" /\ ~ret'.ok)
          => \A s \in Slots : calls'[s].pc = calls[s].pc \/ calls'[s] = IdleCall

\* C22: no retries.  An addMessage call only moves forward: it enters
\* createMessage at most once and never again after createMessage rejected
\* (the call has ended) or returned; the embedding step of a message is
\* launched once, by the addMessage that returns the message's id, and an
\* embedding step that has ended, saved or failed, is never run again.
C22_NoRetries == [][NoRetryStep]_vars

\* An addMessage has just rejected after its message was inserted, and the
\* embedding step of an earlier message has failed.
C22_Witness ==
    /\ ret.call.op = "addMessage"
    /\ ~ret.ok
    /\ ret.call.msg \in Stored
    /\ ret.call.msg \notin DOMAIN tasks
    /\ \E m \in DOMAIN tasks : tasks[m].state = "failed"


\* The step is a saveEmbedding for message id that stores vector v: a direct
\* call, or the one made by the message's embedding step.
SavesEmbedding(id, v) ==
    \/ /\ ret'.call.op = "saveEmbedding"
       /\ ret'.call.msg = id
       /\ ret'.call.vector = v
    \/ /\ Pending(id)
       /\ tasks'[id].state = "saved"
       /\ v = Some(GenerateEmbedding(tasks[id].content))

\* One step that removes no row, rewrites no message and changes an
\* embedding that is set only by saving one for that message.
FrameStep ==
    /\ Len(conversations') >= Len(conversations)
    /\ \A i \in 1..Len(conversations) :
          conversations'[i].conversation_id = conversations[i].conversation_id
    /\ Len(messages') >= Len(messages)
    /\ \A i \in 1..Len(messages) :
          /\ messages'[i].message_id = messages[i].message_id
          /\ messages'[i].conversation_id = messages[i].conversation_id
          /\ messages'[i].role = messages[i].role
          /\ messages'[i].content = messages[i].content
          /\ messages'[i].timestamp = messages[i].timestamp
          /\ \/ IsNull(messages[i].embedding)
             \/ messages'[i].embedding = messages[i].embedding
             \/ SavesEmbedding(messages[i].message_id, messages'[i].embedding)

\* C23: no operation removes a conversation or a message; a stored message
\* keeps its id, conversation_id, role, content and timestamp; and an
\* embedding that is set changes only in a saveEmbedding for that message
\* id.
C23_StoredRowsKept == [][FrameStep]_vars

\* saveEmbedding has just replaced the embedding of one message while
\* another message holds an embedding of its own.
C23_Witness ==
    /\ JustSaved
    /\ ~IsNull(ret.call.prev)
    /\ ret.call.prev # ret.call.vector
    /\ Row(ret.call.msg).embedding = ret.call.vector
    /\ \E m \in Stored :
          /\ m # ret.call.msg
          /\ ~IsNull(Row(m).embedding)
          /\ Row(m).embedding # ret.call.vector


\* Every component of v is 0.
AllZero(v) == \A k \in 1..Len(v) : v[k] = 0

\* C24 as stated: no answer of searchSimilarMessages, for any non-zero
\* query vector and any limit, holds a message whose embedding is all-zero
\* or of a length other than the query vector's.
C24_UndefinedSimilarityExcluded ==
    \A q \in Vectors, l \in 1..MaxLimit :
        \A rows \in SimilarAnswers(q, l) :
            \A i \in 1..Len(rows) :
                /\ ~IsNull(rows[i].embedding)
                /\ ~AllZero(rows[i].embedding[1])
                /\ Len(rows[i].embedding[1]) = Len(q)


\* cosine_similarity has just been applied to two non-zero vectors of the
\* same length.
Compared ==
    /\ ret.call.op = "cosine_similarity"
    /\ Len(ret.call.vector[1]) = Len(ret.call.against[1])
    /\ ~AllZero(ret.call.vector[1])
    /\ ~AllZero(ret.call.against[1])

\* C25: for non-zero vectors a and b of the same length the similarity of
\* a to b is the similarity of b to a, and the similarity of a to itself
\* is 1.
C25_CosineSymmetric ==
    Compared =>
        LET a == ret.call.vector[1]
            b == ret.call.against[1]
        IN  /\ ScoreEQ(ret.value[1], CosineSimilarity(b, a))
            /\ a = b => ScoreEQ(ret.value[1], Score(1, 1))

\* Two different vectors that are neither orthogonal nor parallel have
\* been compared.
C25_Witness ==
    /\ Compared
    /\ ret.call.vector # ret.call.against
    /\ ret.value[1].d # 0
    /\ ~ScoreEQ(ret.value[1], Score(1, 1))
    /\ ~ScoreEQ(ret.value[1], Score(0 - 1, 1))


\* generateEmbedding has just returned.
Generated == ret.call.op = "generateEmbedding"

UnitNorm(v) ==
    /\ \A i \in 1..Len(v) : v[i].over = "magnitude"
    /\ \E i \in 1..Len(v) : ~IsZero(v[i])

\* C27 as stated: every vector generateEmbedding returns has norm 1, for
\* the empty string too.
C27_EmbeddingNormalized == Generated => UnitNorm(ret.value[1])


\* C28 as stated: an addMessage with empty content ends by rejecting, and
\* persists nothing: no stored message has empty content, and a call with
\* empty content creates no conversation and activates none.
C28_EmptyContentRejected ==
    /\ (ret.call.op = "addMessage" /\ ret.call.content = <<>>) => ~ret.ok
    /\ \A i \in 1..Len(messages) : messages[i].content # <<>>
    /\ \A s \in Slots :
          (calls[s].op = "addMessage" /\ calls[s].content = <<>>) =>
              /\ calls[s].created = 0
              /\ calls[s].activated = 0


\* The search_reference handler has just answered.
Answered == ret.call.op = "search_reference"

\* C29: the search_reference handler always returns a result, never
\* rejects; when getConversationByReference returned null the result is the
\* payload { found: false } with no error flag; when it rejected the result
\* has the error flag and a payload with the error's message; otherwise the
\* payload says found with no error flag.
C29_ToolPayloads ==
    Answered =>
        /\ ret.ok
        /\ LET result == ret.value[1]
               payload == JsonParse(result.content[1].text)
               inner == ret.call.inner[1]
           IN  /\ Len(result.content) = 1
               /\ result.content[1].type = "text"
               /\ IF ~inner.ok
                  THEN /\ result.isError
                       /\ DOMAIN payload = {"error"}
                       /\ Includes(payload.error, <<inner.value[1].message>>)
                  ELSE IF IsNull(inner.value)
                  THEN /\ ~result.isError
                       /\ payload = [found |-> FALSE]
                  ELSE /\ ~result.isError
                       /\ payload.found

\* The handler has answered a search that found no message.
C29_Witness ==
    /\ Answered
    /\ ret.call.inner = Some([ok |-> TRUE, value |-> Null])
    /\ ~ret.value[1].isError

\* The handler has answered a search whose read the store rejected.
C29_ErrorWitness ==
    /\ Answered
    /\ ~ret.call.inner[1].ok
    /\ ret.value[1].isError


\* A listing of every stored conversation by updated_at descending, with
\* the conversation of the message inserted last in the first place.
RecentFirst(rows) ==
    /\ {rows[i].conversation_id : i \in 1..Len(rows)} =
            {conversations[i].conversation_id : i \in 1..Len(conversations)}
    /\ Len(rows) = Len(conversations)
    /\ \A i, j \in 1..Len(rows) :
          i < j => rows[i].updated_at >= rows[j].updated_at
    /\ messages # <<>> =>
          rows[1].conversation_id = messages[Len(messages)].conversation_id

\* One step from a state in which the listing just returned, if any (the
\* listing leaves the tables as they are), is by most recent update first,
\* and in which no conversation's updated_at goes back.
ListingStep ==
    /\ ret.call.op = "getAllConversations" => RecentFirst(ret.value[1])
    /\ \A i \in 1..Len(conversations) :
          conversations'[i].updated_at >= conversations[i].updated_at

\* C30 as stated: getAllConversations lists the conversations by
\* updated_at descending, the conversation that received a message last
\* comes first, and the updated_at of a conversation never decreases.
C30_RecentFirst == [][ListingStep]_vars


\* The memories table grew by exactly one row, at its end.
OneMemoryAppended ==
    /\ Len(memories') = Len(memories) + 1
    /\ SubSeq(memories', 1, Len(memories)) = memories

ServiceOps == {"createTodoWithMemory", "completeTodoWithMemory",
               "uncompleteTodoWithMemory", "deleteTodoWithMemory"}

\* One step in which a todo operation of the service, if one returns, has
\* appended one memory when it succeeded, and when it returned false found
\* no todo of the id, appended nothing and changed no todo.
ServiceStep ==
    ret'.call.op \in ServiceOps =>
        IF ret'.call.op = "createTodoWithMemory" \/ ret'.value[1]
        THEN OneMemoryAppended
        ELSE /\ IsNull(GetTodoById(todos, ret'.call.id))
             /\ memories' = memories
             /\ todos' = todos

\* C31: every todo operation of the service layer that succeeds appends
\* exactly one memory entry, and one that returns false because no todo has
\* the given id appends no memory and leaves all todos unchanged.
C31_OneMemoryPerOperation == [][ServiceStep]_vars

\* A todo was deleted through the service, and the deletion is the memory
\* written last.
C31_Witness ==
    /\ ret.call.op = "deleteTodoWithMemory"
    /\ ret.value[1]
    /\ IsNull(GetTodoById(todos, ret.call.id))
    /\ memories[Len(memories)].content[1] = "deleted"

\* A completion through the service found no todo of the id although
\* todos are stored.
C31_FalseWitness ==
    /\ ret.call.op = "completeTodoWithMemory"
    /\ ~ret.value[1]
    /\ todos # <<>>
    /\ memories # <<>>


\* The rows of the memories table created before, or after, a given time.
CreatedBefore(at) ==
    {i \in 1..Len(memories) : memories[i].created_at < at}

CreatedAfter(at) ==
    {i \in 1..Len(memories) : memories[i].created_at > at}

Distance(row, at) ==
    IF row.created_at < at THEN at - row.created_at ELSE row.created_at - at

\* list holds rows of from only, as many as range allows, and no row of
\* from that it leaves out is nearer in time to at than one it holds.
Nearest(list, from, at, range) ==
    /\ \A k \in 1..Len(list) : \E i \in from : memories[i] = list[k]
    /\ range >= 0 =>
          /\ Len(list) = Min(range, Cardinality(from))
          /\ \A i \in from :
                (\A k \in 1..Len(list) : list[k].id # memories[i].id) =>
                    \A k \in 1..Len(list) :
                        Distance(memories[i], at) >= Distance(list[k], at)

\* getMemoriesAroundId has just returned.
AroundEnded == ret.call.op = "getMemoriesAroundId"

\* C32 as stated: getMemoriesAroundId(id, range) for an existing memory
\* returns in before only memories created earlier than it and in after
\* only memories created later, each list the nearest range ones at most,
\* and for a nonexistent id current = null with both lists empty.
C32_AroundInTime ==
    AroundEnded =>
        LET around == ret.value[1]
            target == GetMemoryById(memories, ret.call.id)
        IN  IF IsNull(target)
            THEN around = [before |-> <<>>, current |-> Null, after |-> <<>>]
            ELSE /\ around.current = target
                 /\ Nearest(around.before, CreatedBefore(target[1].created_at),
                            target[1].created_at, ret.call.range)
                 /\ Nearest(around.after, CreatedAfter(target[1].created_at),
                            target[1].created_at, ret.call.range)

\* The same with before and after exchanged: before holds the nearest
\* memories created later, after the nearest created earlier.
AroundExchanged ==
    AroundEnded =>
        LET around == ret.value[1]
            target == GetMemoryById(memories, ret.call.id)
        IN  IF IsNull(target)
            THEN around = [before |-> <<>>, current |-> Null, after |-> <<>>]
            ELSE /\ around.current = target
                 /\ Nearest(around.before, CreatedAfter(target[1].created_at),
                            target[1].created_at, ret.call.range)
                 /\ Nearest(around.after, CreatedBefore(target[1].created_at),
                            target[1].created_at, ret.call.range)


\* The ids of the incomplete todos whose due date lies in from..to.
DueWithin(from, to) ==
    {todos[i].id : i \in {k \in 1..Len(todos) :
                            /\ todos[k].completed = 0
                            /\ ~IsNull(todos[k].due_date)
                            /\ todos[k].due_date[1].iso \in from..to}}

\* A list of stored todos with exactly the given ids, none twice.
ExactlyTodos(list, ids) ==
    /\ {list[k].id : k \in 1..Len(list)} = ids
    /\ Len(list) = Cardinality(ids)
    /\ \A k \in 1..Len(list) : \E i \in 1..Len(todos) : todos[i] = list[k]

\* C33: getOverdueTodos returns exactly the incomplete todos due at or
\* before the current time, getUpcomingTodos(days) exactly the incomplete
\* todos due between the current time and days days later; a completed
\* todo or one without a due date is in neither result.
C33_DueSearches ==
    /\ ret.call.op = "getOverdueTodos" =>
          ExactlyTodos(ret.value[1], DueWithin(0, now))
    /\ ret.call.op = "getUpcomingTodos" =>
          ExactlyTodos(ret.value[1], DueWithin(now, now + ret.call.days))
    /\ ret.call.op \in {"getOverdueTodos", "getUpcomingTodos"} =>
          \A k \in 1..Len(ret.value[1]) :
              /\ ret.value[1][k].completed = 0
              /\ ~IsNull(ret.value[1][k].due_date)

\* getUpcomingTodos returned one todo and left out another that is overdue.
C33_Witness ==
    /\ ret.call.op = "getUpcomingTodos"
    /\ Len(ret.value[1]) = 1
    /\ \E i \in 1..Len(todos) :
          /\ todos[i].completed = 0
          /\ ~IsNull(todos[i].due_date)
          /\ todos[i].due_date[1].iso < now

\* getOverdueTodos returned one todo and left out a completed one that is
\* past its due date.
C33_OverdueWitness ==
    /\ ret.call.op = "getOverdueTodos"
    /\ Len(ret.value[1]) = 1
    /\ \E i \in 1..Len(todos) :
          /\ todos[i].completed = 1
          /\ ~IsNull(todos[i].due_date)
          /\ todos[i].due_date[1].iso < now


\* Two addMessage calls of one user are in flight, each begun while the
\* user had no active conversation.
BothLazy(s, t) ==
    /\ s # t
    /\ calls[s].op = "addMessage"
    /\ calls[t].op = "addMessage"
    /\ calls[s].user = calls[t].user
    /\ ~calls[s].hadActive
    /\ ~calls[t].hadActive

\* The message a call has inserted is stored in the given conversation.
StoredIn(call, conversationId) ==
    call.msg # 0 =>
        \E i \in 1..Len(messages) :
            /\ messages[i].message_id = call.msg
            /\ messages[i].conversation_id = conversationId

\* C34 as stated: two addMessage calls in flight at the same time for one
\* user who has no active conversation create one conversation between
\* them, and both messages are stored in it.
C34_OneConversationForBoth ==
    \A s, t \in Slots :
        BothLazy(s, t) =>
            /\ calls[s].created + calls[t].created <= 1
            /\ calls[s].conv = calls[t].conv
            /\ StoredIn(calls[s], calls[s].conv)
            /\ StoredIn(calls[t], calls[s].conv)


\* The stored conversation rows of the given id.
ConversationsOf(id) ==
    {i \in 1..Len(conversations) : conversations[i].conversation_id = id}

\* C35: referential integrity in every state reachable through the
\* controller: every stored message's conversation_id names an existing
\* conversation, and every entry of the active-conversation map names an
\* existing conversation whose metadata userId is the entry's user.
C35_ReferentialIntegrity ==
    /\ \A i \in 1..Len(messages) :
          ConversationsOf(messages[i].conversation_id) # {}
    /\ \A u \in DOMAIN activeConversations :
          /\ ConversationsOf(activeConversations[u]) # {}
          /\ \A i \in ConversationsOf(activeConversations[u]) :
                StoredMetadata(conversations[i]).userId = u

\* Both users have an active conversation of their own and each
\* conversation holds a message.
C35_Witness ==
    /\ DOMAIN activeConversations = Users
    /\ \A u, v \in Users : u # v => activeConversations[u] # activeConversations[v]
    /\ \A u \in Users :
          \E i \in 1..Len(messages) :
              messages[i].conversation_id = activeConversations[u]


\* One step in which a call, if it returns an error, has left the session
\* map as it was and, if it is an addMessage, has left no message of its
\* own in the store and launched no embedding step.
PropagationStep ==
    ~ret'.ok =>
        /\ activeConversations' = activeConversations
        /\ ret'.call.op = "addMessage" =>
              /\ \A i \in 1..Len(messages') :
                    messages'[i].message_id # ret'.call.msg
              /\ tasks' = tasks

\* C36 as stated: a store failure inside the controller reaches the
\* caller and leaves the session map consistent: a failed conversation
\* creation leaves the user's active conversation unchanged, and a failed
\* createMessage in addMessage stores no message and launches no embedding
\* step.
C36_FailurePropagates == [][PropagationStep]_vars


\* The entry of a user in the session map, 0 when the user has none.
ActiveOf(active, u) == IF u \in DOMAIN active THEN active[u] ELSE 0

\* One step in which the session entry of a user changes only by a call of
\* that user, and a message stored by an addMessage goes to the
\* conversation that is its user's active one as the message is stored.
IsolationStep ==
    /\ \A v \in Users :
          ActiveOf(activeConversations', v) # ActiveOf(activeConversations, v) =>
              \E s \in Slots : ActivationWrite(s) /\ calls[s].user = v
    /\ Len(messages') > Len(messages) =>
          \A s \in Slots :
              (/\ calls'[s].op = "addMessage"
               /\ calls'[s].msg = messages'[Len(messages')].message_id) =>
                  messages'[Len(messages')].conversation_id =
                      ActiveOf(activeConversations', calls'[s].user)

\* C37 as stated: startConversation(u) and addMessage(u) leave the active
\* conversation of every other user unchanged and add no message to a
\* conversation that is not u's active conversation when the message is
\* stored.
C37_UserIsolation == [][IsolationStep]_vars


\* No list of the set holds a todo of the id.
NotListed(lists, id) ==
    \A list \in lists : \A k \in 1..Len(list) : list[k].id # id

\* One step in which updateTodoStatus or deleteTodo, if one returns,
\* returned true exactly for the id of a stored todo, changed nothing when
\* it returned false, left a state that setting the status again leaves
\* as it is, left a deleted todo out of every read and a second delete of
\* it without effect; and in which no id that was given and is gone comes
\* back.
RepositoryStep ==
    /\ ret'.call.op \in {"updateTodoStatus", "deleteTodo"} =>
          /\ ret'.value[1] = ~IsNull(GetTodoById(todos, ret'.call.id))
          /\ ~ret'.value[1] => todos' = todos
    /\ ret'.call.op = "updateTodoStatus" =>
          UpdateTodoStatus(todos', ret'.call.id, ret'.call.completed).rows = todos'
    /\ (ret'.call.op = "deleteTodo" /\ ret'.value[1]) =>
          /\ IsNull(GetTodoById(todos', ret'.call.id))
          /\ NotListed(GetAllTodos(todos'), ret'.call.id)
          /\ NotListed(SearchTodos(todos', [completed |-> Null,
                                            dueBefore |-> Null,
                                            dueAfter |-> Null]),
                       ret'.call.id)
          /\ DeleteTodo(todos', ret'.call.id).changes = 0
          /\ Len(todos') = Len(todos) - 1
    /\ \A id \in 1..sqlite_sequence.todos :
          IsNull(GetTodoById(todos, id)) => IsNull(GetTodoById(todos', id))

\* C38: updateTodoStatus(id, completed) and deleteTodo(id) return true
\* exactly when a todo with that id exists; on false no todo changes;
\* setting the same status twice leaves the same state as setting it
\* once; after a successful deleteTodo the todo is no longer returned by
\* getTodoById, getAllTodos or searchTodos, and a second deleteTodo of the
\* same id returns false.
C38_StatusAndDelete == [][RepositoryStep]_vars

\* updateTodoStatus returned true for a todo that already had the status.
C38_Witness ==
    /\ ret.call.op = "updateTodoStatus"
    /\ ret.call.completed
    /\ ret.value[1]
    /\ Len(todos) = MaxTodos
    /\ \A i \in 1..Len(todos) : todos[i].completed = 1

\* deleteTodo returned false for the id of a todo deleted before, with
\* another todo still stored.
C38_DeleteWitness ==
    /\ ret.call.op = "deleteTodo"
    /\ ~ret.value[1]
    /\ ret.call.id <= sqlite_sequence.todos
    /\ todos # <<>>


=============================================================================
